---------------------------- MODULE Spec2Model ----------------------------
(***************************************************************************)
(* A state-machine model of the IPMI sensor / SDR command handlers of      *)
(* src/src/sensorcommands.cpp: the SDR reservation counter, the lazily     *)
(* rebuilt sensor tree, the per-connection sensor map cache, the threshold *)
(* deassertion latch map, and the D-Bus signal handlers that touch them.   *)
(*                                                                         *)
(* Doubles are modelled by integers.  Time is the steady clock in ticks of *)
(* 1/TicksPerSecond second, so that the truncation of                      *)
(* duration_cast<seconds> is visible.                                      *)
(***************************************************************************)
EXTENDS Integers, Sequences, FiniteSets, TLC

VARIABLES
    sdrReservationID,     \* static uint16_t sdrReservationID
    sdrLastAdd,           \* static uint32_t sdrLastAdd
    sdrLastRemove,        \* static uint32_t sdrLastRemove
    sensorTree,           \* SensorSubTree sensorTree (set of paths, iterated in path order)
    SensorCache,          \* flat_map<connection, ManagedObjectType>
    updateTimeMap,        \* function-static flat_map<connection, time_point> of getSensorMap
    thresholdDeassertMap, \* flat_map<path, flat_map<alarm name, optional<bool>>>
    now,                  \* std::chrono::steady_clock::now(), in ticks
    objects,              \* backend: the sensor objects that exist, path -> SensorMap
    fruCount,             \* storage collaborator: number of FRU records
    signals,              \* D-Bus signals emitted by the backend and not yet delivered
    last,                 \* the last request handled and its response
    reserveCount,         \* history: number of reserve requests served
    lastReserve,          \* history: value returned by the previous reserve, or NoID
    firstChunk,           \* history: last successful offset-0 sensor read since the last reserve
    signalSinceReserve,   \* history: a topology signal was delivered since the last reserve
    fillTime,             \* history: when each SensorCache entry was filled
    everAsserted          \* history: latch keys for which an assert was processed

vars == <<sdrReservationID, sdrLastAdd, sdrLastRemove, sensorTree, SensorCache,
          updateTimeMap, thresholdDeassertMap, now, objects, fruCount, signals,
          last, reserveCount, lastReserve, firstChunk, signalSinceReserve, fillTime,
          everAsserted>>

-----------------------------------------------------------------------------
(* Program constants *)

sensorMapUpdatePeriod == 2
noTimestamp == -1            \* 0xFFFFFFFF, kept apart from every clock value
lastRecordIndex == 65535
uint16Max == 65535
uint16Mod == 65536
uint8Mod == 256
sizeMax == 2147483647        \* size_t(-1); congruent to 0xFFFF modulo 2^16
fullRecordSize == 64         \* sizeof(get_sdr::SensorDataFullRecord)
fruRecordSize == 32          \* sizeof(get_sdr::SensorDataFruRecord)

valueInterface == "xyz.openbmc_project.Sensor.Value"
warningInterface == "xyz.openbmc_project.Sensor.Threshold.Warning"
criticalInterface == "xyz.openbmc_project.Sensor.Threshold.Critical"

(* Model bounds *)

TicksPerSecond == 2
\* the steady clock, in seconds, at startup and when the model stops it
StartTime == 3
MaxTime == 6
MaxReserves == 3
PagingReserves == 2
MaxFru == 2
MaxSignals == 1

-----------------------------------------------------------------------------
(* The backend: connections, object paths and the sensor maps they expose *)

Paths == {"p1", "p2", "p3"}
PathOrder == <<"p1", "p2", "p3">>

ConnOf(path) == IF path = "p3" THEN "c2" ELSE "c1"

EmptyMap == [x \in {} |-> 0]

MapPut(m, k, v) == [x \in (DOMAIN m) \cup {k} |-> IF x = k THEN v ELSE m[x]]

\* the n-th (0-based) element of a set of paths in std::map iteration order
RECURSIVE NthPath(_, _, _)
\* mutant: the walk over the tree stops at its first entry whatever the index
NthPath_FirstEntry(tree, n, i) ==
    IF tree = {} THEN "none"
    ELSE CHOOSE path \in tree :
            \A j \in 1..Len(PathOrder) :
                PathOrder[j] \in tree =>
                    \E k \in 1..j : PathOrder[k] = path

NthPath(tree, n, i) ==
    IF i > Len(PathOrder) THEN "none"
    ELSE IF PathOrder[i] \in tree
         THEN IF n = 0 THEN PathOrder[i] ELSE NthPath(tree, n - 1, i + 1)
         ELSE NthPath(tree, n, i + 1)


\* The sensor maps the backend can expose: interface -> property -> value.
PlainSensor ==
    (valueInterface :> [Value |-> 42, MinValue |-> 0, MaxValue |-> 255])

FullSensor ==
    (valueInterface :> [Value |-> 10, MinValue |-> -128, MaxValue |-> 127])
    @@ (warningInterface :> [WarningLow |-> -20, WarningHigh |-> 50,
                             WarningAlarmLow |-> FALSE, WarningAlarmHigh |-> FALSE])
    @@ (criticalInterface :> [CriticalLow |-> -40, CriticalHigh |-> 90,
                              CriticalAlarmLow |-> FALSE, CriticalAlarmHigh |-> TRUE])

\* critical interface without CriticalLow, no warning interface
PartialSensor ==
    (valueInterface :> [Value |-> 7, MinValue |-> 0, MaxValue |-> 255])
    @@ (criticalInterface :> [CriticalHigh |-> 200, CriticalAlarmHigh |-> FALSE])

\* a threshold interface but no value interface (backend inconsistency)
NoValueSensor ==
    (criticalInterface :> [CriticalLow |-> 1, CriticalHigh |-> 9])

\* MinValue = MaxValue: the range cannot be linearized
FlatSensor ==
    (valueInterface :> [Value |-> 5, MinValue |-> 5, MaxValue |-> 5])
    @@ (criticalInterface :> [CriticalLow |-> 1, CriticalHigh |-> 9])

Has(map, key) == key \in DOMAIN map

\* GetManagedObjects on a connection: the objects it owns right now
ManagedObjects(connection) ==
    [p \in {q \in DOMAIN objects : ConnOf(q) = connection} |-> objects[p]]

-----------------------------------------------------------------------------
(* Linearization codec (sensorutils.hpp), integer ranges only *)

RECURSIVE Pow10(_)
Pow10(e) == IF e <= 0 THEN 1 ELSE 10 * Pow10(e - 1)

\* getSensorAttributes(max, min, mValue, rExp, bValue, bExp, bSigned)
getSensorAttributes(max, min) ==
    IF max <= min
    THEN [ok |-> FALSE, mValue |-> 0, rExp |-> 0, bValue |-> 0, bExp |-> 0,
          bSigned |-> FALSE]
    ELSE LET span == max - min
             m0 == (span + 254) \div 255
             bSigned == min < 0
             b0 == IF bSigned THEN (max + min + 1) \div 2 ELSE min
         IN [ok |-> m0 <= 1023 /\ b0 <= 1023 /\ b0 >= -1024,
             mValue |-> m0, rExp |-> 0, bValue |-> b0, bExp |-> 0,
             bSigned |-> bSigned]

\* mutant: the defaults are used whatever the backend exposes
getSensorMaxMin_DefaultsOnly(sensorPropertyMap) == [max |-> 127, min |-> -128]

\* getSensorMaxMin(sensorPropertyMap, max, min)
getSensorMaxMin(sensorPropertyMap) ==
    [max |-> IF Has(sensorPropertyMap, "MaxValue")
             THEN sensorPropertyMap["MaxValue"] ELSE 127,
     min |-> IF Has(sensorPropertyMap, "MinValue")
             THEN sensorPropertyMap["MinValue"] ELSE -128]

-----------------------------------------------------------------------------
(* Sensor Map Cache: getSensorMap *)

\* duration_cast<seconds>(to - from).count()
ElapsedSeconds(from, to) == (to - from) \div TicksPerSecond

\* the refresh condition of getSensorMap
RefreshDue(connection) ==
    LET
        \* lastUpdate: the stored time point, or the clock's epoch when there is none
        LastUpdate ==
            IF connection \in DOMAIN updateTimeMap THEN updateTimeMap[connection] ELSE 0
    IN  ElapsedSeconds(LastUpdate, now) > sensorMapUpdatePeriod

\* mutant: a failed enumeration stores the empty reply it was left with
CacheAfterFetch_StoreOnFailure(connection, enumOK) ==
    IF RefreshDue(connection)
    THEN MapPut(SensorCache, connection,
                IF enumOK THEN ManagedObjects(connection) ELSE EmptyMap)
    ELSE SensorCache

\* SensorCache after the fetch: replaced only when the enumeration succeeded
CacheAfterFetch(connection, enumOK) ==
    IF RefreshDue(connection) /\ enumOK
    THEN MapPut(SensorCache, connection, ManagedObjects(connection))
    ELSE SensorCache

\* the lookup that follows the refresh; an early return on a failed enumeration
FetchResult(connection, sensorPath, enumOK) ==
    LET cache == CacheAfterFetch(connection, enumOK)
    IN  IF RefreshDue(connection) /\ ~enumOK
        THEN [ok |-> FALSE, sensorMap |-> EmptyMap]
        ELSE IF connection \notin DOMAIN cache
        THEN [ok |-> FALSE, sensorMap |-> EmptyMap]
        ELSE IF sensorPath \notin DOMAIN cache[connection]
        THEN [ok |-> FALSE, sensorMap |-> EmptyMap]
        ELSE [ok |-> TRUE, sensorMap |-> cache[connection][sensorPath]]

\* getSensorMap(sensorConnection, sensorPath, sensorMap) as a whole
getSensorMap(sensorConnection, sensorPath, enumOK) ==
    LET
        \* updateTimeMap after the fetch: stamped before the backend call is made
        UpdateTimeAfterFetch ==
            IF RefreshDue(sensorConnection)
            THEN MapPut(updateTimeMap, sensorConnection, now)
            ELSE updateTimeMap
    IN  [ok |-> FetchResult(sensorConnection, sensorPath, enumOK).ok,
         sensorMap |-> FetchResult(sensorConnection, sensorPath, enumOK).sensorMap,
         enumerated |-> RefreshDue(sensorConnection),
         updateTimeMap |-> UpdateTimeAfterFetch,
         SensorCache |-> CacheAfterFetch(sensorConnection, enumOK),
         fillTime |-> IF RefreshDue(sensorConnection) /\ enumOK
                      THEN MapPut(fillTime, sensorConnection, now)
                      ELSE fillTime]

-----------------------------------------------------------------------------
(* Threshold read-back: scaleIPMIValueFromDouble and getIPMIThresholds *)

\* scaleIPMIValueFromDouble(value, mValue, rExp, bValue, bExp, bSigned), for
\* the non-negative exponents getSensorAttributes yields on integer ranges
scaleIPMIValueFromDouble(value, a) ==
    LET
        \* floor((2n + d) / 2d) for d > 0: n / d rounded to nearest
        RoundDiv(n, d) == (2 * n + d) \div (2 * d)
        Clamp(v, lo, hi) == IF v < lo THEN lo ELSE IF v > hi THEN hi ELSE v
        scaled == RoundDiv(value - a.bValue * Pow10(a.bExp) * Pow10(a.rExp),
                           a.mValue * Pow10(a.rExp))
    IN  IF a.bSigned
        THEN Clamp(scaled, -128, 127) % uint8Mod
        ELSE Clamp(scaled, 0, 255)

NoThreshold == -1

NoThresholds ==
    [ok |-> TRUE, warningHigh |-> NoThreshold, warningLow |-> NoThreshold,
     criticalHigh |-> NoThreshold, criticalLow |-> NoThreshold]

ThresholdOf(sensorMap, interface, property, a) ==
    IF Has(sensorMap, interface) /\ Has(sensorMap[interface], property)
    THEN scaleIPMIValueFromDouble(sensorMap[interface][property], a)
    ELSE NoThreshold

\* mutant: nothing is thrown and nothing is readable
getIPMIThresholds_NeverThrows(sensorMap) == NoThresholds

\* getIPMIThresholds(sensorMap); ok = FALSE stands for the runtime_error thrown
getIPMIThresholds(sensorMap) ==
    IF ~Has(sensorMap, warningInterface) /\ ~Has(sensorMap, criticalInterface)
    THEN NoThresholds
    ELSE IF ~Has(sensorMap, valueInterface)
    THEN [NoThresholds EXCEPT !.ok = FALSE]
    ELSE LET mm == getSensorMaxMin(sensorMap[valueInterface])
             a == getSensorAttributes(mm.max, mm.min)
         IN  IF ~a.ok
             THEN [NoThresholds EXCEPT !.ok = FALSE]
             ELSE [ok |-> TRUE,
                   warningHigh |-> ThresholdOf(sensorMap, warningInterface, "WarningHigh", a),
                   warningLow |-> ThresholdOf(sensorMap, warningInterface, "WarningLow", a),
                   criticalHigh |-> ThresholdOf(sensorMap, criticalInterface, "CriticalHigh", a),
                   criticalLow |-> ThresholdOf(sensorMap, criticalInterface, "CriticalLow", a)]

-----------------------------------------------------------------------------
(* SDR repository: reserve and get-SDR *)

\* mutant: the counter stops at 0xFFFF
NextReservationID_Saturate(id) == IF id = uint16Max THEN uint16Max ELSE id + 1

\* mutant: the increment without the skip over zero
NextReservationID_NoSkip(id) == (id + 1) % uint16Mod

\* sdrReservationID++; if (sdrReservationID == 0) sdrReservationID++;
NextReservationID(id) ==
    LET inc == (id + 1) % uint16Mod
    IN  IF inc = 0 THEN (inc + 1) % uint16Mod ELSE inc

\* mutant: the check without "sdrReservationID == 0"
ReservationRejected_NoZeroCheck(reservationID, offset) ==
    reservationID # sdrReservationID /\ offset # 0

\* the reservation check that opens ipmiStorageGetSDR
ReservationRejected(reservationID, offset) ==
    (sdrReservationID = 0 \/ reservationID # sdrReservationID) /\ offset # 0

\* getSensorSubtree(sensorTree): the mapper's current subtree, or a failure
\* that leaves the tree empty
getSensorSubtree(subtreeOK) == IF subtreeOK THEN DOMAIN objects ELSE {}

\* sensorTree after "sensorTree.empty() && !getSensorSubtree(sensorTree)"
\* mutant: the tree is enumerated only once, it is never rebuilt after it
\* was cleared
TreeAfterLookup_EnumeratedOnce(subtreeOK) ==
    IF sensorTree = {} /\ sdrLastAdd = noTimestamp /\ sdrLastRemove = noTimestamp
    THEN getSensorSubtree(subtreeOK) ELSE sensorTree

TreeAfterLookup(subtreeOK) ==
    IF sensorTree = {} THEN getSensorSubtree(subtreeOK) ELSE sensorTree

TreeLookupFailed(subtreeOK) == sensorTree = {} /\ ~subtreeOK

\* mutant: the 0xFFFF sentinel is not translated
EffectiveRecordID_NoSentinel(recordID, lastRecord) == recordID

\* mutant: a record ID beyond the last record is taken as the last record
EffectiveRecordID_Clamp(recordID, lastRecord) ==
    IF recordID >= lastRecord THEN lastRecord % uint16Mod ELSE recordID

\* if (recordID == lastRecordIndex) recordID = lastRecord; (truncated to 16 bits)
EffectiveRecordID(recordID, lastRecord) ==
    IF recordID = lastRecordIndex THEN lastRecord % uint16Mod ELSE recordID

\* mutant: the successor is returned for the last record too
NextRecordId_NoEnd(recordID, lastRecord) == (recordID + 1) % uint16Mod

\* uint16_t nextRecordId = lastRecord > recordID ? recordID + 1 : 0xFFFF
NextRecordId(recordID, lastRecord) ==
    IF lastRecord > recordID THEN (recordID + 1) % uint16Mod ELSE uint16Max

\* mutant: FRU records counted from the record after the first FRU record
FruIndex_OneBased(recordID, tree) == recordID - Cardinality(tree) - 1

\* size_t fruIndex = recordID - sensorTree.size()
FruIndex(recordID, tree) == recordID - Cardinality(tree)

\* record_id_msb = recordID << 8, stored in a uint8_t
RecordIdMsb(recordID) == (recordID * 256) % uint8Mod

\* record_id_lsb = recordID & 0xFF
RecordIdLsb(recordID) == recordID % uint8Mod

\* if (size < offset + bytesToRead) bytesToRead = size - offset; (uint8_t)
WindowCount(size, offset, bytesToRead) ==
    IF size < offset + bytesToRead THEN (size - offset) % uint8Mod
    ELSE bytesToRead

NoPayload == [kind |-> "none"]

ErrorResponse(cc) == [cc |-> cc, nextRecordId |-> 0, payload |-> NoPayload]

\* the FRU branch of ipmiStorageGetSDR
FruRecordResponse(recordID, nextRecordId, fruIndex, offset, bytesToRead, fruOK) ==
    IF fruIndex >= fruCount THEN ErrorResponse("invalidFieldRequest")
    ELSE IF offset > fruRecordSize THEN ErrorResponse("invalidFieldRequest")
    ELSE IF ~fruOK THEN ErrorResponse("storageError")
    ELSE [cc |-> "ok", nextRecordId |-> nextRecordId,
          payload |-> [kind |-> "fru", source |-> <<"fru", fruIndex>>,
                       record_id_msb |-> RecordIdMsb(recordID),
                       record_id_lsb |-> RecordIdLsb(recordID),
                       offset |-> offset,
                       count |-> WindowCount(fruRecordSize, offset, bytesToRead)]]

\* the range ipmiStorageGetSDR derives the record's M, B and exponents from
SdrMaxMin(sensorPropertyMap) ==
    [max |-> IF Has(sensorPropertyMap, "MaxValue")
             THEN sensorPropertyMap["MaxValue"] ELSE 128,
     min |-> IF Has(sensorPropertyMap, "MinValue")
             THEN sensorPropertyMap["MinValue"] ELSE -127]

\* the live-sensor branch of ipmiStorageGetSDR, after getSensorMap
FullRecordResponse(recordID, nextRecordId, path, fetch, offset, bytesToRead) ==
    IF ~fetch.ok THEN ErrorResponse("responseError")
    ELSE IF ~Has(fetch.sensorMap, valueInterface) THEN ErrorResponse("responseError")
    ELSE LET mm == SdrMaxMin(fetch.sensorMap[valueInterface])
             a == getSensorAttributes(mm.max, mm.min)
             t == getIPMIThresholds(fetch.sensorMap)
         IN  IF ~a.ok THEN ErrorResponse("responseError")
             ELSE IF ~t.ok THEN ErrorResponse("responseError")
             ELSE [cc |-> "ok", nextRecordId |-> nextRecordId,
                   payload |-> [kind |-> "full", source |-> <<"sensor", path>>,
                                record_id_msb |-> RecordIdMsb(recordID),
                                record_id_lsb |-> RecordIdLsb(recordID),
                                sensor_number |-> recordID % uint8Mod,
                                attributes |-> a, thresholds |-> t,
                                offset |-> offset,
                                count |-> WindowCount(fullRecordSize, offset, bytesToRead)]]

\* what getSensorMap leaves behind when it is not called
NoFetch ==
    [ok |-> FALSE, sensorMap |-> EmptyMap, enumerated |-> FALSE,
     updateTimeMap |-> updateTimeMap, SensorCache |-> SensorCache,
     fillTime |-> fillTime]

\* ipmiStorageGetSDR(reservationID, recordID, offset, bytesToRead): the
\* response, the sensor tree and the getSensorMap effects it leaves.
\* env: the outcomes of the backend calls it makes.
ipmiStorageGetSDR(reservationID, recordID, offset, bytesToRead, env) ==
    LET
        \* size_t lastRecord = sensorTree.size() + fruCount - 1 (unsigned wrap at 0)
        LastRecord(tree, count) ==
            IF Cardinality(tree) + count = 0 THEN sizeMax
            ELSE Cardinality(tree) + count - 1
        tree == TreeAfterLookup(env.subtreeOK)
        lastRecord == LastRecord(tree, fruCount)
        rec == EffectiveRecordID(recordID, lastRecord)
        nextRecordId == NextRecordId(rec, lastRecord)
        isSensor == rec < Cardinality(tree)
        path == NthPath(tree, rec, 1)
        fetch == getSensorMap(ConnOf(path), path, env.enumOK)
    IN  IF ReservationRejected(reservationID, offset)
        THEN [rsp |-> ErrorResponse("invalidReservationId"),
              sensorTree |-> sensorTree, fetch |-> NoFetch]
        ELSE IF TreeLookupFailed(env.subtreeOK)
        THEN [rsp |-> ErrorResponse("responseError"),
              sensorTree |-> tree, fetch |-> NoFetch]
        ELSE IF ~env.fruCountOK
        THEN [rsp |-> ErrorResponse("storageError"),
              sensorTree |-> tree, fetch |-> NoFetch]
        ELSE IF rec > lastRecord
        THEN [rsp |-> ErrorResponse("invalidFieldRequest"),
              sensorTree |-> tree, fetch |-> NoFetch]
        ELSE IF ~isSensor
        THEN [rsp |-> FruRecordResponse(rec, nextRecordId, FruIndex(rec, tree),
                                        offset, bytesToRead, env.fruOK),
              sensorTree |-> tree, fetch |-> NoFetch]
        ELSE [rsp |-> FullRecordResponse(rec, nextRecordId, path, fetch,
                                         offset, bytesToRead),
              sensorTree |-> tree, fetch |-> fetch]

-----------------------------------------------------------------------------
(* Initial states *)

NoID == -1

NoChunk == [valid |-> FALSE, reservation |-> 0, recordID |-> 0, source |-> <<>>]

\* the sensor map each object path exposes when it exists
ShapeOf(path) ==
    IF path = "p1" THEN FullSensor
    ELSE IF path = "p2" THEN PlainSensor
    ELSE PartialSensor

\* the program state with empty caches and the reservation counter at startID
\* (0 after construction)
InitProgram(startID) ==
    LET NoRequest == [op |-> "none", rq |-> EmptyMap, cc |-> "none", rs |-> EmptyMap]
    IN  /\ sdrReservationID = startID
        /\ sdrLastAdd = noTimestamp
        /\ sdrLastRemove = noTimestamp
        /\ sensorTree = {}
        /\ SensorCache = EmptyMap
        /\ updateTimeMap = EmptyMap
        /\ thresholdDeassertMap = EmptyMap
        /\ now = StartTime * TicksPerSecond
        /\ signals = <<>>
        /\ last = NoRequest
        /\ reserveCount = 0
        /\ lastReserve = (IF startID = 0 THEN NoID ELSE startID)
        /\ firstChunk = NoChunk
        /\ signalSinceReserve = FALSE
        /\ fillTime = EmptyMap
        /\ everAsserted = {}

Init ==
    /\ InitProgram(0)
    /\ objects = [p \in Paths |-> ShapeOf(p)]
    /\ fruCount \in 0..MaxFru

\* every sensor present and no FRU device
InitNoFru ==
    /\ InitProgram(0)
    /\ objects = [p \in Paths |-> ShapeOf(p)]
    /\ fruCount = 0

-----------------------------------------------------------------------------
(* Clock and backend *)

Tick ==
    /\ now < MaxTime * TicksPerSecond
    /\ now' = now + 1
    /\ UNCHANGED <<sdrReservationID, sdrLastAdd, sdrLastRemove, sensorTree,
                   SensorCache, updateTimeMap, thresholdDeassertMap, objects,
                   fruCount, signals, last, reserveCount, lastReserve,
                   firstChunk, signalSinceReserve, fillTime, everAsserted>>

\* a sensor object appears on the bus; InterfacesAdded is emitted
BackendAdd(path) ==
    /\ path \notin DOMAIN objects
    /\ Len(signals) < MaxSignals
    /\ objects' = MapPut(objects, path, ShapeOf(path))
    /\ signals' = Append(signals, "InterfacesAdded")
    /\ UNCHANGED <<sdrReservationID, sdrLastAdd, sdrLastRemove, sensorTree,
                   SensorCache, updateTimeMap, thresholdDeassertMap, now,
                   fruCount, last, reserveCount, lastReserve, firstChunk,
                   signalSinceReserve, fillTime, everAsserted>>

\* a sensor object leaves the bus; InterfacesRemoved is emitted
BackendRemove(path) ==
    /\ path \in DOMAIN objects
    /\ Len(signals) < MaxSignals
    /\ objects' = [p \in (DOMAIN objects) \ {path} |-> objects[p]]
    /\ signals' = Append(signals, "InterfacesRemoved")
    /\ UNCHANGED <<sdrReservationID, sdrLastAdd, sdrLastRemove, sensorTree,
                   SensorCache, updateTimeMap, thresholdDeassertMap, now,
                   fruCount, last, reserveCount, lastReserve, firstChunk,
                   signalSinceReserve, fillTime, everAsserted>>

-----------------------------------------------------------------------------
(* Attribute-change watcher: topology signals *)

\* the sensorAdded match callback
sensorAdded ==
    LET WallSeconds == now \div TicksPerSecond
    IN  /\ signals # <<>>
        /\ Head(signals) = "InterfacesAdded"
        /\ signals' = Tail(signals)
        /\ sensorTree' = {}
        /\ sdrLastAdd' = WallSeconds
        /\ signalSinceReserve' = TRUE
        /\ UNCHANGED <<sdrReservationID, sdrLastRemove, SensorCache, updateTimeMap,
                       thresholdDeassertMap, now, objects, fruCount, last,
                       reserveCount, lastReserve, firstChunk, fillTime,
                       everAsserted>>

\* the sensorRemoved match callback
sensorRemoved ==
    LET WallSeconds == now \div TicksPerSecond
    IN  /\ signals # <<>>
        /\ Head(signals) = "InterfacesRemoved"
        /\ signals' = Tail(signals)
        /\ sensorTree' = {}
        /\ sdrLastRemove' = WallSeconds
        /\ signalSinceReserve' = TRUE
        /\ UNCHANGED <<sdrReservationID, sdrLastAdd, SensorCache, updateTimeMap,
                       thresholdDeassertMap, now, objects, fruCount, last,
                       reserveCount, lastReserve, firstChunk, fillTime,
                       everAsserted>>

-----------------------------------------------------------------------------
(* SDR request handlers *)

\* the 16-bit reservation ID a client reads from the two response bytes
ReservationOf(bytes) == bytes[1] + uint8Mod * bytes[2]

\* ipmiStorageReserveSDR
ipmiStorageReserveSDR(dataLen) ==
    LET
        \* resp[0] = sdrReservationID & 0xFF; resp[1] = sdrReservationID >> 8
        ReserveResponseBytes(id) == <<id % uint8Mod, id \div uint8Mod>>
    IN  /\ IF dataLen # 0
           THEN /\ last' = [op |-> "reserve", rq |-> [dataLen |-> dataLen],
                            cc |-> "reqDataLenInvalid", rs |-> EmptyMap]
                /\ UNCHANGED <<sdrReservationID, reserveCount, lastReserve,
                               firstChunk, signalSinceReserve>>
           ELSE /\ sdrReservationID' = NextReservationID(sdrReservationID)
                /\ last' = [op |-> "reserve", rq |-> [dataLen |-> dataLen],
                            cc |-> "ok",
                            rs |-> [bytes |-> ReserveResponseBytes(sdrReservationID'),
                                    previous |-> lastReserve]]
                /\ reserveCount' = reserveCount + 1
                /\ lastReserve' = ReservationOf(ReserveResponseBytes(sdrReservationID'))
                /\ firstChunk' = NoChunk
                /\ signalSinceReserve' = FALSE
        /\ UNCHANGED <<sdrLastAdd, sdrLastRemove, sensorTree, SensorCache,
                       updateTimeMap, thresholdDeassertMap, now, objects, fruCount,
                       signals, fillTime, everAsserted>>

\* the outcomes of the backend calls one request can make.  A handler
\* returns at the first call that fails, so one failure per request covers
\* every outcome.
AllOK == [subtreeOK |-> TRUE, fruCountOK |-> TRUE, fruOK |-> TRUE, enumOK |-> TRUE]

Envs ==
    {AllOK,
     [AllOK EXCEPT !.subtreeOK = FALSE],
     [AllOK EXCEPT !.fruCountOK = FALSE],
     [AllOK EXCEPT !.fruOK = FALSE],
     [AllOK EXCEPT !.enumOK = FALSE]}

\* what the build can do with the read: within the record it is answered;
\* past its end (undefined behaviour) whatever follows the record on the
\* stack is either sent out or cannot be read and the process is terminated
ReadOutcomes(rsp) ==
    LET
        \* sizeof of the record a successful response was cut from
        RecordSizeOf(payload) ==
            IF payload.kind = "fru" THEN fruRecordSize ELSE fullRecordSize
        \* the vector of a successful response was built from addresses past the
        \* end of the record object
        Overruns ==
            /\ rsp.cc = "ok"
            /\ rsp.payload.offset + rsp.payload.count > RecordSizeOf(rsp.payload)
    IN  IF Overruns THEN {"bytesBeyondRecord", "terminated"} ELSE {"answered"}

\* request parameters tried
ReqReservationIDs ==
    LET StaleReservationID == (sdrReservationID + uint16Max) % uint16Mod
    IN  {0, sdrReservationID, StaleReservationID}

ReqRecordIDs == (0..(Cardinality(Paths) + MaxFru)) \cup {lastRecordIndex}
ReqOffsets == {0, 8}
ReqLengths == {16, 64}

\* the ipmiStorageGetSDR handler as a step
GetSDR(reservationID, recordID, offset, bytesToRead, env) ==
    \E r \in {ipmiStorageGetSDR(reservationID, recordID, offset, bytesToRead, env)} :
    \E outcome \in ReadOutcomes(r.rsp) :
        /\ sensorTree' = r.sensorTree
        /\ SensorCache' = r.fetch.SensorCache
        /\ updateTimeMap' = r.fetch.updateTimeMap
        /\ fillTime' = r.fetch.fillTime
        /\ last' = [op |-> "getSDR",
                    rq |-> [reservationID |-> reservationID, recordID |-> recordID,
                            offset |-> offset, bytesToRead |-> bytesToRead],
                    cc |-> IF outcome = "terminated" THEN outcome ELSE r.rsp.cc,
                    rs |-> r.rsp]
        /\ firstChunk' =
              IF r.rsp.cc = "ok" /\ offset = 0 /\ r.rsp.payload.kind = "full"
              THEN [valid |-> TRUE, reservation |-> sdrReservationID,
                    recordID |-> recordID, source |-> r.rsp.payload.source]
              ELSE firstChunk
        /\ UNCHANGED <<sdrReservationID, sdrLastAdd, sdrLastRemove,
                       thresholdDeassertMap, now, objects, fruCount, signals,
                       reserveCount, lastReserve, signalSinceReserve,
                       everAsserted>>

-----------------------------------------------------------------------------
(* Reservation protocol: reserve requests and record reads against a fixed
   topology, with the counter started at 0 or just below its 16-bit wrap *)

InitReserve ==
    /\ \E startID \in {0, uint16Max - 1} : InitProgram(startID)
    /\ objects = [p \in Paths |-> ShapeOf(p)]
    /\ fruCount \in 0..MaxFru

NextReserve ==
    \/ \E dataLen \in {0, 1} :
          reserveCount < MaxReserves /\ ipmiStorageReserveSDR(dataLen)
    \/ \E reservationID \in ReqReservationIDs, recordID \in {0, lastRecordIndex},
          offset \in ReqOffsets, env \in Envs :
          GetSDR(reservationID, recordID, offset, 16, env)

SpecReserve == InitReserve /\ [][NextReserve]_vars

\* C1: no reserve ever returns 0, and a reserve never returns the value the
\* previous reserve returned, also across the wrap from 0xFFFF.
C1_ReserveNeverZeroNorRepeats ==
    (last.op = "reserve" /\ last.cc = "ok") =>
        /\ ReservationOf(last.rs.bytes) # 0
        /\ last.rs.previous # NoID =>
              ReservationOf(last.rs.bytes) # last.rs.previous

\* a reserve served right after the one that returned 0xFFFF
C1_Witness ==
    /\ last.op = "reserve"
    /\ last.cc = "ok"
    /\ last.rs.previous = uint16Max
    /\ ReservationOf(last.rs.bytes) = 1

\* C2: an offset-0 read is never answered invalid-reservation; a read with
\* offset > 0 is answered invalid-reservation whenever no reservation was
\* issued since startup or the supplied ID is not the one the most recent
\* reserve returned.
C2_ReservationGate ==
    last.op = "getSDR" =>
        /\ last.rq.offset = 0 => last.cc # "invalidReservationId"
        /\ (last.rq.offset > 0
            /\ (lastReserve = NoID \/ last.rq.reservationID # lastReserve))
           => last.cc = "invalidReservationId"

\* an offset > 0 read supplying ID 0 before any reserve, rejected
C2_Witness ==
    /\ last.op = "getSDR"
    /\ last.rq.offset > 0
    /\ last.rq.reservationID = 0
    /\ lastReserve = NoID
    /\ last.cc = "invalidReservationId"

\* C19 as stated: every reserve returns a value strictly greater than the
\* one the preceding reserve returned.
C19_StrictlyIncreasing ==
    (last.op = "reserve" /\ last.cc = "ok" /\ last.rs.previous # NoID) =>
        ReservationOf(last.rs.bytes) > last.rs.previous

\* C19 as amended: every reserve returns the preceding value plus one,
\* except after 0xFFFF, where it returns 1.
C19_IncrementsAndWraps ==
    (last.op = "reserve" /\ last.cc = "ok" /\ last.rs.previous # NoID) =>
        ReservationOf(last.rs.bytes) =
            IF last.rs.previous = uint16Max THEN 1 ELSE last.rs.previous + 1

\* the reserve at the wrap: a smaller value than the one before, after at
\* least two reserves
C19_Witness ==
    /\ last.op = "reserve"
    /\ last.cc = "ok"
    /\ reserveCount >= 2
    /\ last.rs.previous # NoID
    /\ ReservationOf(last.rs.bytes) < last.rs.previous

-----------------------------------------------------------------------------
(* Paginated reads across topology changes *)

InitPaging ==
    /\ InitProgram(0)
    /\ objects = [p \in Paths |-> ShapeOf(p)]
    /\ fruCount = MaxFru

NextPaging ==
    \/ reserveCount < PagingReserves /\ ipmiStorageReserveSDR(0)
    \/ \E recordID \in {0, 1}, offset \in ReqOffsets :
          GetSDR(sdrReservationID, recordID, offset, 16, AllOK)
    \/ \E path \in Paths : BackendAdd(path)
    \/ \E path \in Paths : BackendRemove(path)
    \/ sensorAdded
    \/ sensorRemoved

SpecPaging == InitPaging /\ [][NextPaging]_vars

\* C3: when a topology signal was delivered after the reserve, a successful
\* read at offset > 0 under that reservation returns bytes of the same sensor
\* as the offset-0 read of the same record ID made under that reservation.
C3_ReservationProtectsPagedRead ==
    (/\ last.op = "getSDR"
     /\ last.cc = "ok"
     /\ last.rq.offset > 0
     /\ signalSinceReserve
     /\ firstChunk.valid
     /\ firstChunk.reservation = last.rq.reservationID
     /\ firstChunk.recordID = last.rq.recordID)
    => last.rs.payload.source = firstChunk.source

-----------------------------------------------------------------------------
(* Record addressing over every topology and FRU count *)

InitRecords ==
    /\ InitProgram(0)
    /\ \E present \in SUBSET Paths : objects = [p \in present |-> ShapeOf(p)]
    /\ fruCount \in 0..MaxFru

NextRecords ==
    \/ reserveCount = 0 /\ ipmiStorageReserveSDR(0)
    \/ \E recordID \in ReqRecordIDs, offset \in ReqOffsets, env \in Envs :
          GetSDR(sdrReservationID, recordID, offset, 16, env)

SpecRecords == InitRecords /\ [][NextRecords]_vars

\* C4: with at least one record, a read of record 0xFFFF gets the completion
\* code and payload of the read of record sensorCount + fruCount - 1, and a
\* next record ID of 0xFFFF.
C4_LastRecordSentinel ==
    LET
        \* the number of records a request sees under the given backend outcomes
        RecordCount(env) == Cardinality(TreeAfterLookup(env.subtreeOK)) + fruCount
    IN  \A reservationID \in ReqReservationIDs, offset \in ReqOffsets,
           bytesToRead \in ReqLengths, env \in Envs :
            RecordCount(env) >= 1 =>
                \E s \in {ipmiStorageGetSDR(reservationID, lastRecordIndex, offset,
                                            bytesToRead, env)},
                   l \in {ipmiStorageGetSDR(reservationID, RecordCount(env) - 1,
                                            offset, bytesToRead, env)} :
                    /\ s.rsp.cc = l.rsp.cc
                    /\ s.rsp.payload = l.rsp.payload
                    /\ s.rsp.cc = "ok" => s.rsp.nextRecordId = uint16Max
                    /\ s.sensorTree = l.sensorTree
                    /\ s.fetch = l.fetch

\* a read of record 0xFFFF answered with the last sensor's record
C4_Witness ==
    /\ last.op = "getSDR"
    /\ last.rq.recordID = lastRecordIndex
    /\ last.cc = "ok"
    /\ last.rs.payload.kind = "full"
    /\ last.rs.nextRecordId = uint16Max
    /\ Cardinality(sensorTree) >= 2

\* C16 as stated: a read of a record ID beyond the records returns
\* invalid-field with no payload.
C16_BeyondRecordsInvalidField ==
    LET
        \* a record ID that is neither 0xFFFF nor one of the count records; with no
        \* record at all, every record ID
        BeyondRecords(recordID, count) ==
            \/ count = 0
            \/ recordID # lastRecordIndex /\ recordID >= count
    IN  (/\ last.op = "getSDR"
         /\ BeyondRecords(last.rq.recordID, Cardinality(DOMAIN objects) + fruCount))
        => last.cc = "invalidFieldRequest" /\ last.rs.payload = NoPayload

\* C16 as amended: in every state, a read of a record ID beyond the records
\* returns no payload, and returns invalid-field when the reservation check
\* passes and the sensor tree and the FRU count are obtained.
C16_BeyondRecordsNoPayload ==
    LET
        \* a record ID that is neither 0xFFFF nor one of the count records; with no
        \* record at all, every record ID
        BeyondRecords(recordID, count) ==
            \/ count = 0
            \/ recordID # lastRecordIndex /\ recordID >= count
        \* the number of records a request sees under the given backend outcomes
        RecordCount(env) == Cardinality(TreeAfterLookup(env.subtreeOK)) + fruCount
    IN  \A reservationID \in ReqReservationIDs, recordID \in ReqRecordIDs,
           offset \in ReqOffsets, bytesToRead \in ReqLengths, env \in Envs :
            BeyondRecords(recordID, RecordCount(env)) =>
                \E r \in {ipmiStorageGetSDR(reservationID, recordID, offset,
                                            bytesToRead, env)} :
                    /\ r.rsp.payload = NoPayload
                    /\ r.rsp.cc # "ok"
                    /\ (/\ offset = 0 \/ (sdrReservationID # 0
                                           /\ reservationID = sdrReservationID)
                        /\ sensorTree # {} \/ env.subtreeOK
                        /\ env.fruCountOK)
                       => r.rsp.cc = "invalidFieldRequest"

\* C29: the record space is the sensors followed by the FRU records: a
\* record ID below the sensor count is answered, if at all, with the
\* full record of the sensor of that rank in the Topology Index, a record ID
\* from the sensor count up to the last record with the FRU record of index
\* record ID - sensor count, which is answered whenever the backend calls
\* succeed; no request is refused as out of range inside the record space.
C29_SensorsThenFruRecords ==
    LET
        \* the path that has exactly rank paths of the tree before it in the tree's
        \* iteration order
        RankedPath(tree, rank, path) ==
            \E i \in 1..Len(PathOrder) :
                /\ PathOrder[i] = path
                /\ path \in tree
                /\ Cardinality({j \in 1..(i - 1) : PathOrder[j] \in tree}) = rank
    IN  \A recordID \in 0..(Cardinality(Paths) + MaxFru - 1), env \in Envs :
            \E r \in {ipmiStorageGetSDR(0, recordID, 0, 16, env)} :
                LET sensorCount == Cardinality(r.sensorTree)
                IN  /\ (r.rsp.cc = "ok" /\ recordID < sensorCount) =>
                          /\ r.rsp.payload.kind = "full"
                          /\ RankedPath(r.sensorTree, recordID,
                                        r.rsp.payload.source[2])
                    /\ (r.rsp.cc = "ok" /\ recordID >= sensorCount) =>
                          /\ recordID < sensorCount + fruCount
                          /\ r.rsp.payload.source = <<"fru", recordID - sensorCount>>
                    /\ (/\ recordID < sensorCount + fruCount
                         /\ (sensorTree # {} \/ env.subtreeOK)
                         /\ env.fruCountOK) =>
                          /\ r.rsp.cc # "invalidFieldRequest"
                          /\ (recordID >= sensorCount /\ env.fruOK) =>
                                r.rsp.cc = "ok"

\* the last of two FRU records read behind two sensors
C29_Witness ==
    /\ last.op = "getSDR"
    /\ last.cc = "ok"
    /\ Cardinality(sensorTree) = 2
    /\ fruCount = 2
    /\ last.rq.recordID = 3
    /\ last.rs.payload.source = <<"fru", 1>>
    /\ firstChunk.valid
    /\ firstChunk.recordID = 1
    /\ firstChunk.source[1] = "sensor"

\* record 0 of the empty repository read and refused
C16_Witness ==
    /\ last.op = "getSDR"
    /\ last.rq.recordID = 0
    /\ last.rq.offset = 0
    /\ objects = EmptyMap
    /\ fruCount = 0
    /\ last.cc = "invalidFieldRequest"
    /\ last.rs.payload = NoPayload

-----------------------------------------------------------------------------
(* Walking the repository by next record ID *)

\* one step of the walk: record 0 first, then the record the last response
\* named, each read from offset 0
WalkSDR(bytesToRead) ==
    LET
        \* the record IDs requested so far in the walk under way, when the last
        \* request was an answered step of one that has not reached its end
        WalkSoFar ==
            IF last.op = "walkSDR" /\ last.cc = "ok"
               /\ last.rs.nextRecordId # uint16Max
            THEN last.rq.walk ELSE <<>>
    IN  \E recordID \in {IF WalkSoFar = <<>> THEN 0 ELSE last.rs.nextRecordId} :
        \E r \in {ipmiStorageGetSDR(0, recordID, 0, bytesToRead, AllOK)} :
            /\ sensorTree' = r.sensorTree
            /\ SensorCache' = r.fetch.SensorCache
            /\ updateTimeMap' = r.fetch.updateTimeMap
            /\ fillTime' = r.fetch.fillTime
            /\ last' = [op |-> "walkSDR",
                        rq |-> [recordID |-> recordID,
                                walk |-> Append(WalkSoFar, recordID)],
                        cc |-> r.rsp.cc, rs |-> r.rsp]
            /\ UNCHANGED <<sdrReservationID, sdrLastAdd, sdrLastRemove,
                           thresholdDeassertMap, now, objects, fruCount, signals,
                           reserveCount, lastReserve, firstChunk,
                           signalSinceReserve, everAsserted>>

NextWalk ==
    \/ \E bytesToRead \in ReqLengths : WalkSDR(bytesToRead)
    \/ Tick

SpecWalk == InitRecords /\ [][NextWalk]_vars

\* C17: with N >= 1 records, the walk requests records 0, 1, ... in order,
\* every request is answered, and the answer names 0xFFFF as the next record
\* exactly at the N-th request, the one for record N - 1.
C17_WalkVisitsEveryRecordOnce ==
    (last.op = "walkSDR" /\ Cardinality(DOMAIN objects) + fruCount >= 1) =>
        /\ \A i \in 1..Len(last.rq.walk) : last.rq.walk[i] = i - 1
        /\ Len(last.rq.walk) <= Cardinality(DOMAIN objects) + fruCount
        /\ last.cc = "ok"
        /\ last.rs.nextRecordId = uint16Max
              <=> Len(last.rq.walk) = Cardinality(DOMAIN objects) + fruCount
        /\ last.rs.nextRecordId # uint16Max
              => last.rs.nextRecordId = Len(last.rq.walk)

\* a walk over three sensors and two FRU records at its end
C17_Witness ==
    /\ last.op = "walkSDR"
    /\ last.rq.walk = <<0, 1, 2, 3, 4>>
    /\ Cardinality(sensorTree) = 3
    /\ last.rs.payload.kind = "fru"
    /\ last.rs.nextRecordId = uint16Max

-----------------------------------------------------------------------------
(* Three sensors and a varying number of FRU records, whole-record reads *)

NextScenario ==
    \E recordID \in ReqRecordIDs, env \in Envs :
          GetSDR(0, recordID, 0, 64, env)

SpecScenario == Init /\ [][NextScenario]_vars

\* C18 as stated: the read is served from FRU record 0 and names 0xFFFF as
\* the next record.
C18_RecordFourIsFruZero ==
    LET
        \* a successful whole-record read of record 4 with 3 sensors and 2 FRU records
        ScenarioRead ==
            /\ last.op = "getSDR"
            /\ last.cc = "ok"
            /\ last.rq.recordID = 4
            /\ last.rq.offset = 0
            /\ last.rq.bytesToRead = 64
            /\ Cardinality(sensorTree) = 3
            /\ fruCount = 2
    IN  ScenarioRead =>
            /\ last.rs.payload.source = <<"fru", 0>>
            /\ last.rs.nextRecordId = uint16Max

\* C18 as amended: the read is served from FRU record 1, the last record,
\* and names 0xFFFF as the next record.
C18_RecordFourIsFruOne ==
    LET
        \* a successful whole-record read of record 4 with 3 sensors and 2 FRU records
        ScenarioRead ==
            /\ last.op = "getSDR"
            /\ last.cc = "ok"
            /\ last.rq.recordID = 4
            /\ last.rq.offset = 0
            /\ last.rq.bytesToRead = 64
            /\ Cardinality(sensorTree) = 3
            /\ fruCount = 2
    IN  ScenarioRead =>
            /\ last.rs.payload.kind = "fru"
            /\ last.rs.payload.source = <<"fru", 1>>
            /\ last.rs.nextRecordId = uint16Max

\* the read of the scenario, answered from the last FRU record
C18_Witness ==
    LET
        \* a successful whole-record read of record 4 with 3 sensors and 2 FRU records
        ScenarioRead ==
            /\ last.op = "getSDR"
            /\ last.cc = "ok"
            /\ last.rq.recordID = 4
            /\ last.rq.offset = 0
            /\ last.rq.bytesToRead = 64
            /\ Cardinality(sensorTree) = 3
            /\ fruCount = 2
    IN  /\ ScenarioRead
        /\ last.rs.payload.kind = "fru"
        /\ last.rs.payload.source = <<"fru", 1>>

-----------------------------------------------------------------------------
(* Byte windows: every kind of offset and length against both record sizes *)

NextWindow ==
    \/ sdrReservationID = 0 /\ ipmiStorageReserveSDR(0)
    \* the first sensor record, the first FRU record and the last record
    \/ \E recordID \in {0, Cardinality(Paths), lastRecordIndex},
          offset \in {0, 8, fruRecordSize, fruRecordSize + 1, fullRecordSize,
                      fullRecordSize + 1, uint8Mod - 1},
          bytesToRead \in {0, 16, fullRecordSize, uint8Mod - 1} :
          GetSDR(sdrReservationID, recordID, offset, bytesToRead, AllOK)

SpecWindow == Init /\ [][NextWindow]_vars

\* C21: every successful read returns the bytes [offset, min(offset +
\* length, S)) of the record of size S: at most length bytes, and none from
\* a position at or beyond S.
C21_WindowWithinRecord ==
    LET
        \* sizeof of the record a successful response was cut from
        RecordSizeOf(payload) ==
            IF payload.kind = "fru" THEN fruRecordSize ELSE fullRecordSize
        Min(a, b) == IF a < b THEN a ELSE b
        \* the number of bytes in [offset, min(offset + length, size))
        WindowWidth(size, offset, length) ==
            IF offset >= size THEN 0 ELSE Min(offset + length, size) - offset
    IN  (last.op = "getSDR" /\ last.cc = "ok") =>
            /\ last.rs.payload.offset = last.rq.offset
            /\ last.rs.payload.count =
                  WindowWidth(RecordSizeOf(last.rs.payload), last.rq.offset,
                              last.rq.bytesToRead)
            /\ last.rs.payload.count <= last.rq.bytesToRead
            /\ last.rs.payload.offset + last.rs.payload.count
                  <= RecordSizeOf(last.rs.payload)

-----------------------------------------------------------------------------
(* Sensor Map Cache under a running clock and failing enumerations *)

\* one call of getSensorMap by a handler, with what it found and left
Fetch(path, enumOK) ==
    \E r \in {getSensorMap(ConnOf(path), path, enumOK)} :
        /\ SensorCache' = r.SensorCache
        /\ updateTimeMap' = r.updateTimeMap
        /\ fillTime' = r.fillTime
        /\ last' = [op |-> "getSensorMap",
                    rq |-> [connection |-> ConnOf(path), path |-> path],
                    cc |-> IF r.ok THEN "ok" ELSE "responseError",
                    rs |-> [ok |-> r.ok, sensorMap |-> r.sensorMap,
                            enumerated |-> r.enumerated,
                            enumOK |-> r.enumerated /\ enumOK,
                            at |-> now,
                            cacheBefore |-> SensorCache,
                            updateBefore |-> updateTimeMap,
                            fillBefore |-> fillTime]]
        /\ UNCHANGED <<sdrReservationID, sdrLastAdd, sdrLastRemove, sensorTree,
                       thresholdDeassertMap, now, objects, fruCount, signals,
                       reserveCount, lastReserve, firstChunk,
                       signalSinceReserve, everAsserted>>

NextCache ==
    \/ \E path \in Paths, enumOK \in BOOLEAN : Fetch(path, enumOK)
    \/ Tick

SpecCache == InitNoFru /\ [][NextCache]_vars

\* C7: when a fetch returns data, the connection's cached entry was filled
\* no more than the refresh period before the fetch.
C7_FreshWhenConsulted ==
    LET
        \* whole seconds between the filling of the connection's entry and the fetch
        AgeAtFetch ==
            ElapsedSeconds(fillTime[last.rq.connection], last.rs.at)
    IN  (last.op = "getSensorMap" /\ last.rs.ok) =>
            AgeAtFetch <= sensorMapUpdatePeriod

\* C8: a fetch whose enumeration failed leaves the connection's last-refresh
\* timestamp as it was.
C8_TimestampOnlyOnSuccess ==
    LET
        \* a fetch whose backend enumeration failed
        FetchFailed ==
            last.op = "getSensorMap" /\ last.rs.enumerated /\ ~last.rs.enumOK
    IN  FetchFailed => updateTimeMap = last.rs.updateBefore

\* C9: a fetch whose enumeration failed reports failure and leaves every
\* connection's cached tree as it was.
C9_FailureKeepsCache ==
    LET
        \* a fetch whose backend enumeration failed
        FetchFailed ==
            last.op = "getSensorMap" /\ last.rs.enumerated /\ ~last.rs.enumOK
    IN  FetchFailed =>
            /\ ~last.rs.ok
            /\ last.cc = "responseError"
            /\ SensorCache = last.rs.cacheBefore

\* a failed enumeration for a connection with a cached tree, while the other
\* connection has one too
C9_Witness ==
    LET
        Connections == {"c1", "c2"}
        \* a fetch whose backend enumeration failed
        FetchFailed ==
            last.op = "getSensorMap" /\ last.rs.enumerated /\ ~last.rs.enumOK
    IN  /\ FetchFailed
        /\ DOMAIN last.rs.cacheBefore = Connections
        /\ last.rs.cacheBefore[last.rq.connection] # EmptyMap

\* C10: a fetch for a connection with no cached tree or a stale one
\* enumerates the backend before answering.
C10_MissOrStaleEnumerates ==
    LET
        \* the connection had no cached tree, or one older than the refresh period,
        \* when the last fetch was made
        MissOrStaleAtFetch ==
            \/ last.rq.connection \notin DOMAIN last.rs.cacheBefore
            \/ ElapsedSeconds(last.rs.fillBefore[last.rq.connection], last.rs.at)
                  > sensorMapUpdatePeriod
    IN  (last.op = "getSensorMap" /\ MissOrStaleAtFetch) => last.rs.enumerated

-----------------------------------------------------------------------------
(* Attribute-change watcher: threshold alarm signals *)

\* property names a PropertiesChanged payload can carry, in the key order of
\* the flat_map the payload is read into
PropertyOrder ==
    <<"CriticalAlarmHigh", "CriticalAlarmLow", "CriticalHigh",
      "WarningAlarmHigh", "WarningAlarmLow">>

\* pair.first.find("Alarm") != std::string::npos
ContainsAlarm(name) ==
    name \in {"CriticalAlarmHigh", "CriticalAlarmLow", "WarningAlarmHigh",
              "WarningAlarmLow"}

\* std::variant<bool, double> values; the callback never reads a double, so
\* its number is left out
Bool(b) == [type |-> "bool", value |-> b]
\* std::optional<bool>: no value, or one
Nullopt == <<>>
Some(b) == <<b>>
HasValue(opt) == opt # Nullopt

\* std::find_if over the payload: the first alarm property, or "none"
RECURSIVE FindAssert(_, _)
FindAssert(values, i) ==
    IF i > Len(PropertyOrder) THEN "none"
    ELSE IF PropertyOrder[i] \in DOMAIN values /\ ContainsAlarm(PropertyOrder[i])
         THEN PropertyOrder[i]
         ELSE FindAssert(values, i + 1)

\* thresholdDeassertMap[path][name], without creating the entry
Latch(path, name) ==
    IF path \in DOMAIN thresholdDeassertMap
       /\ name \in DOMAIN thresholdDeassertMap[path]
    THEN thresholdDeassertMap[path][name]
    ELSE Nullopt

\* mutant: a deassert is latched whether or not an assert was seen
LatchAfterSignal_Unconditional(path, name, alarm) == Some(alarm)

\* the latch value the callback leaves for an alarm property carrying `alarm`
\* mutant: a false alarm never changes the latch
LatchAfterSignal_AssertOnly(path, name, alarm) ==
    IF alarm THEN Some(TRUE) ELSE Latch(path, name)

LatchAfterSignal(path, name, alarm) ==
    IF alarm THEN Some(TRUE)
    ELSE IF HasValue(Latch(path, name)) THEN Some(FALSE)
    ELSE Latch(path, name)

\* the thresholdChanged match callback for a signal from `path` with `values`
thresholdChanged(path, values) ==
    LET
        \* the alarm properties of a payload that carry the boolean true
        AssertedIn ==
            {<<path, n>> : n \in {m \in DOMAIN values :
                                     ContainsAlarm(m) /\ values[m] = Bool(TRUE)}}
        name == FindAssert(values, 1)
        \* thresholdDeassertMap with [path][name] set to opt
        LatchPut(opt) ==
            MapPut(thresholdDeassertMap, path,
                   MapPut(IF path \in DOMAIN thresholdDeassertMap
                          THEN thresholdDeassertMap[path] ELSE EmptyMap,
                          name, opt))
    IN  /\ thresholdDeassertMap' =
              IF name = "none" \/ values[name].type # "bool"
              THEN thresholdDeassertMap
              ELSE LatchPut(LatchAfterSignal(path, name, values[name].value))
        /\ everAsserted' = everAsserted \cup AssertedIn
        /\ last' = [op |-> "thresholdChanged",
                    rq |-> [path |-> path, values |-> values,
                            assertedBefore |-> everAsserted],
                    cc |-> "none", rs |-> EmptyMap]
        /\ UNCHANGED <<sdrReservationID, sdrLastAdd, sdrLastRemove, sensorTree,
                       SensorCache, updateTimeMap, now, objects, fruCount,
                       signals, reserveCount, lastReserve, firstChunk,
                       signalSinceReserve, fillTime>>

\* the payloads tried: one property each, boolean or not, and one carrying
\* two alarm properties
Payloads ==
    LET Double == [type |-> "double", value |-> FALSE]
    IN  {(n :> v) : n \in {"CriticalAlarmHigh", "CriticalHigh", "WarningAlarmLow"},
                    v \in {Bool(TRUE), Bool(FALSE), Double}}
        \cup {("CriticalAlarmHigh" :> Bool(FALSE)) @@ ("WarningAlarmLow" :> Bool(TRUE))}

NextLatch ==
    \E path \in {"p1", "p2"}, values \in Payloads : thresholdChanged(path, values)

SpecLatch == InitNoFru /\ [][NextLatch]_vars

\* C35: after a threshold-change notification is processed, every alarm
\* property that its payload carries with the boolean true has its latch set
\* to true, also when the payload carries more than one alarm property.
C35_EveryTrueAlarmLatched ==
    last.op = "thresholdChanged" =>
        \A name \in DOMAIN last.rq.values :
            (ContainsAlarm(name) /\ last.rq.values[name] = Bool(TRUE)) =>
                Latch(last.rq.path, name) = Some(TRUE)

\* C6: a latch holds a value only if a signal carrying true for that alarm
\* property of that path was processed; a false for a key never asserted
\* leaves the latch without a value.
C6_LatchOnlyAfterAssert ==
    \A path \in Paths, i \in 1..Len(PropertyOrder) :
        HasValue(Latch(path, PropertyOrder[i])) =>
            <<path, PropertyOrder[i]>> \in everAsserted

\* a false for a never asserted key was processed, and its latch has no value
C6_Witness ==
    /\ last.op = "thresholdChanged"
    /\ last.rq.values = ("CriticalAlarmHigh" :> Bool(FALSE))
    /\ <<last.rq.path, "CriticalAlarmHigh">> \notin everAsserted
    /\ last.rq.path \in DOMAIN thresholdDeassertMap
    /\ ~HasValue(Latch(last.rq.path, "CriticalAlarmHigh"))

-----------------------------------------------------------------------------
(* Threshold engine: set-sensor-thresholds *)

\* getSensorConnection(sensnum, connection, path) (sdrutils.hpp): the
\* sensnum-th entry of the lazily rebuilt sensor tree
getSensorConnection(sensnum, subtreeOK) ==
    LET tree == TreeAfterLookup(subtreeOK)
    IN  IF TreeLookupFailed(subtreeOK)
        THEN [status |-> "responseError", connection |-> "none",
              path |-> "none", sensorTree |-> tree]
        ELSE IF Cardinality(tree) < sensnum + 1
        THEN [status |-> "invalidFieldRequest", connection |-> "none",
              path |-> "none", sensorTree |-> tree]
        ELSE [status |-> "ok",
              connection |-> ConnOf(NthPath(tree, sensnum, 1)),
              path |-> NthPath(tree, sensnum, 1), sensorTree |-> tree]

\* the bits of req->mask, by name (SensorThresholdReqEnable and the two
\* reserved upper bits)
ReservedBits == {"reserved6", "reserved7"}

\* mutant: only the upper non-recoverable bit is refused
NonRecoverableBits_OnlyUpper == {"setUpperNonRecoverable"}

NonRecoverableBits == {"setLowerNonRecoverable", "setUpperNonRecoverable"}

\* double valueToSet = ((mValue * raw) + (bValue * 10^bExp)) * 10^rExp, the
\* raw byte taken as the uint8_t it is stored as
ValueToSet(raw, a) ==
    (a.mValue * raw + a.bValue * Pow10(a.bExp)) * Pow10(a.rExp)

\* mutant: CriticalLow is queued without looking for the property
CriticalMissing_NoLowCheck(sensorMap, mask) ==
    /\ ("setLowerCritical" \in mask \/ "setUpperCritical" \in mask)
    /\ \/ ~Has(sensorMap, criticalInterface)
       \/ /\ "setUpperCritical" \in mask
          /\ ~Has(sensorMap[criticalInterface], "CriticalHigh")

\* "verify all needed fields are present", critical part: a return of
\* IPMI_CC_INVALID_FIELD_REQUEST
CriticalMissing(sensorMap, mask) ==
    /\ ("setLowerCritical" \in mask \/ "setUpperCritical" \in mask)
    /\ \/ ~Has(sensorMap, criticalInterface)
       \/ /\ "setLowerCritical" \in mask
          /\ ~Has(sensorMap[criticalInterface], "CriticalLow")
       \/ /\ "setUpperCritical" \in mask
          /\ ~Has(sensorMap[criticalInterface], "CriticalHigh")

\* the same, warning part
WarningMissing(sensorMap, mask) ==
    /\ ("setLowerNonCritical" \in mask \/ "setUpperNonCritical" \in mask)
    /\ \/ ~Has(sensorMap, warningInterface)
       \/ /\ "setLowerNonCritical" \in mask
          /\ ~Has(sensorMap[warningInterface], "WarningLow")
       \/ /\ "setUpperNonCritical" \in mask
          /\ ~Has(sensorMap[warningInterface], "WarningHigh")

\* thresholdsToSet, in the order the entries are emplaced
ThresholdsToSet(req) ==
    LET Write(property, value, interface) ==
            [property |-> property, value |-> value, interface |-> interface]
    IN  (IF "setLowerCritical" \in req.mask
         THEN <<Write("CriticalLow", req.lowerCritical, criticalInterface)>> ELSE <<>>)
        \o (IF "setUpperCritical" \in req.mask
            THEN <<Write("CriticalHigh", req.upperCritical, criticalInterface)>> ELSE <<>>)
        \o (IF "setLowerNonCritical" \in req.mask
            THEN <<Write("WarningLow", req.lowerNonCritical, warningInterface)>> ELSE <<>>)
        \o (IF "setUpperNonCritical" \in req.mask
            THEN <<Write("WarningHigh", req.upperNonCritical, warningInterface)>> ELSE <<>>)

\* the loop over thresholdsToSet from entry i on; failAt is the write the
\* backend refuses (0: none).  issued: the calls made; applied: the calls
\* that took effect; thrown: the loop was left by an exception.
RECURSIVE SetLoop(_, _, _, _, _, _, _)
SetLoop(objs, path, list, a, i, failAt, issued) ==
    LET
        WriteTo(w, value) ==
            [objs EXCEPT ![path] =
                [@ EXCEPT ![w.interface] = MapPut(@, w.property, value)]]
        \* setDbusProperty on the backend object; it throws when the call fails
        CanWrite(w) ==
            path \in DOMAIN objs /\ w.interface \in DOMAIN objs[path]
    IN  IF i > Len(list)
        THEN [objects |-> objs, issued |-> issued, applied |-> issued,
              thrown |-> FALSE]
        ELSE LET call == [path |-> path, interface |-> list[i].interface,
                          property |-> list[i].property,
                          value |-> ValueToSet(list[i].value, a)]
             IN  IF i = failAt \/ ~CanWrite(list[i])
                 THEN [objects |-> objs, issued |-> Append(issued, call),
                       applied |-> issued, thrown |-> TRUE]
                 ELSE SetLoop(WriteTo(list[i], call.value), path, list,
                              a, i + 1, failAt, Append(issued, call))

\* ipmiSenSetSensorThresholds: the completion code, the property writes
\* issued and the state it leaves
ipmiSenSetSensorThresholds(dataLen, req, env) ==
    LET
        SetResult(cc, tree, fetch) ==
            [cc |-> cc, sensorTree |-> tree, fetch |-> fetch, objects |-> objects,
             issued |-> <<>>, applied |-> <<>>]
        conn == getSensorConnection(req.sensorNum, env.subtreeOK)
        fetch == getSensorMap(conn.connection, conn.path, env.enumOK)
        sensorMap == fetch.sensorMap
        mm == getSensorMaxMin(sensorMap[valueInterface])
        a == getSensorAttributes(mm.max, mm.min)
        loop == SetLoop(objects, conn.path, ThresholdsToSet(req), a, 1,
                        env.failAt, <<>>)
    IN  IF dataLen # 8
        THEN SetResult("reqDataLenInvalid", sensorTree, NoFetch)
        ELSE IF req.mask \cap ReservedBits # {}
        THEN SetResult("invalidFieldRequest", sensorTree, NoFetch)
        ELSE IF req.mask \cap NonRecoverableBits # {}
        THEN SetResult("invalidFieldRequest", sensorTree, NoFetch)
        ELSE IF req.mask = {}
        THEN SetResult("ok", sensorTree, NoFetch)
        ELSE IF conn.status # "ok"
        THEN SetResult(conn.status, conn.sensorTree, NoFetch)
        ELSE IF ~fetch.ok
        THEN SetResult("responseError", conn.sensorTree, fetch)
        ELSE IF ~Has(sensorMap, valueInterface)
        THEN SetResult("responseError", conn.sensorTree, fetch)
        ELSE IF ~a.ok
        THEN SetResult("responseError", conn.sensorTree, fetch)
        ELSE IF CriticalMissing(sensorMap, req.mask)
        THEN SetResult("invalidFieldRequest", conn.sensorTree, fetch)
        ELSE IF WarningMissing(sensorMap, req.mask)
        THEN SetResult("invalidFieldRequest", conn.sensorTree, fetch)
        ELSE [cc |-> IF loop.thrown THEN "unspecifiedError" ELSE "ok",
              sensorTree |-> conn.sensorTree, fetch |-> fetch,
              objects |-> loop.objects, issued |-> loop.issued,
              applied |-> loop.applied]

\* the set-sensor-thresholds handler as a step
SetThresholds(dataLen, req, env) ==
    LET
        \* the sensor map the backend exposes for the sensor a request addresses,
        \* EmptyMap when the number resolves to no sensor
        ExposedBy(sensnum) ==
            LET tree == IF sensorTree = {} THEN DOMAIN objects ELSE sensorTree
                path == NthPath(tree, sensnum, 1)
            IN  IF path \in DOMAIN objects THEN objects[path] ELSE EmptyMap
    IN  \E r \in {ipmiSenSetSensorThresholds(dataLen, req, env)} :
            /\ sensorTree' = r.sensorTree
            /\ SensorCache' = r.fetch.SensorCache
            /\ updateTimeMap' = r.fetch.updateTimeMap
            /\ fillTime' = r.fetch.fillTime
            /\ objects' = r.objects
            /\ last' = [op |-> "setThresholds",
                        rq |-> [dataLen |-> dataLen, req |-> req,
                                resolved |-> NthPath(r.sensorTree, req.sensorNum, 1),
                                exposed |-> ExposedBy(req.sensorNum)],
                        cc |-> r.cc,
                        rs |-> [issued |-> r.issued, applied |-> r.applied,
                                fetched |-> r.fetch.ok,
                                enumerated |-> r.fetch.enumerated,
                                sensorMap |-> r.fetch.sensorMap]]
            /\ UNCHANGED <<sdrReservationID, sdrLastAdd, sdrLastRemove,
                           thresholdDeassertMap, now, fruCount, signals,
                           reserveCount, lastReserve, firstChunk,
                           signalSinceReserve, everAsserted>>

ThresholdRequests ==
    LET
        \* the set-threshold requests tried: every sensor number up to an unknown
        \* one, with masks that select present, absent, unsupported and reserved
        \* thresholds
        Masks ==
            {{}, {"setLowerCritical", "setUpperCritical"}, {"setUpperCritical"},
             {"setLowerNonCritical"}, {"setUpperNonCritical", "setUpperCritical"},
             {"setLowerNonRecoverable"}, {"reserved7", "setUpperCritical"}}
    IN  {[sensorNum |-> n, mask |-> m, lowerNonCritical |-> 10, lowerCritical |-> 5,
          upperNonCritical |-> 20, upperCritical |-> 30] :
            n \in 0..Cardinality(Paths), m \in Masks}

BackendOK == [subtreeOK |-> TRUE, enumOK |-> TRUE, failAt |-> 0]

InitThreshold ==
    /\ InitProgram(0)
    /\ \E third \in {FlatSensor, NoValueSensor} :
          objects = ("p1" :> FullSensor) @@ ("p2" :> PartialSensor)
                    @@ ("p3" :> third)
    /\ fruCount = 0

NextThreshold ==
    \/ \E req \in ThresholdRequests,
          env \in {BackendOK,
                   [BackendOK EXCEPT !.subtreeOK = FALSE],
                   [BackendOK EXCEPT !.enumOK = FALSE],
                   [BackendOK EXCEPT !.failAt = 1],
                   [BackendOK EXCEPT !.failAt = 2]} :
          SetThresholds(8, req, env)
    \/ \E req \in ThresholdRequests : SetThresholds(7, req, BackendOK)

SpecThreshold == InitThreshold /\ [][NextThreshold]_vars

\* C5 as stated: a request whose mask selects a threshold the sensor does not
\* expose returns invalid-field and issues no backend property write.
C5_MissingThresholdInvalidField ==
    LET
        SelectableBits ==
            {"setLowerCritical", "setUpperCritical", "setLowerNonCritical",
             "setUpperNonCritical"}
        PropertyOf(bit) ==
            IF bit = "setLowerCritical" THEN "CriticalLow"
            ELSE IF bit = "setUpperCritical" THEN "CriticalHigh"
            ELSE IF bit = "setLowerNonCritical" THEN "WarningLow"
            ELSE "WarningHigh"
        \* the backend interface and property behind each selectable mask bit
        InterfaceOf(bit) ==
            IF bit \in {"setLowerCritical", "setUpperCritical"}
            THEN criticalInterface ELSE warningInterface
        \* the last request addressed an existing sensor and its mask selects a
        \* threshold whose interface or property that sensor does not expose
        SelectsMissing ==
            /\ last.op = "setThresholds"
            /\ last.rq.resolved # "none"
            /\ \E bit \in last.rq.req.mask \cap SelectableBits :
                  ~(/\ Has(last.rq.exposed, InterfaceOf(bit))
                    /\ Has(last.rq.exposed[InterfaceOf(bit)], PropertyOf(bit)))
    IN  SelectsMissing =>
            last.cc = "invalidFieldRequest" /\ last.rs.issued = <<>>

\* C5 as amended: such a request issues no backend property write, and
\* returns invalid-field when the handler got as far as looking for the
\* selected thresholds.
C5_MissingThresholdNoWrite ==
    LET
        \* the handler got as far as looking for the selected thresholds: the
        \* request has its 8 bytes, the sensor's tree was fetched, and the tree has
        \* a value interface with a range that can be linearized
        ReachedValidation ==
            /\ last.rq.dataLen = 8
            /\ last.rs.fetched
            /\ Has(last.rs.sensorMap, valueInterface)
            /\ getSensorAttributes(getSensorMaxMin(last.rs.sensorMap[valueInterface]).max,
                                   getSensorMaxMin(last.rs.sensorMap[valueInterface]).min).ok
        SelectableBits ==
            {"setLowerCritical", "setUpperCritical", "setLowerNonCritical",
             "setUpperNonCritical"}
        PropertyOf(bit) ==
            IF bit = "setLowerCritical" THEN "CriticalLow"
            ELSE IF bit = "setUpperCritical" THEN "CriticalHigh"
            ELSE IF bit = "setLowerNonCritical" THEN "WarningLow"
            ELSE "WarningHigh"
        \* the backend interface and property behind each selectable mask bit
        InterfaceOf(bit) ==
            IF bit \in {"setLowerCritical", "setUpperCritical"}
            THEN criticalInterface ELSE warningInterface
        \* the last request addressed an existing sensor and its mask selects a
        \* threshold whose interface or property that sensor does not expose
        SelectsMissing ==
            /\ last.op = "setThresholds"
            /\ last.rq.resolved # "none"
            /\ \E bit \in last.rq.req.mask \cap SelectableBits :
                  ~(/\ Has(last.rq.exposed, InterfaceOf(bit))
                    /\ Has(last.rq.exposed[InterfaceOf(bit)], PropertyOf(bit)))
    IN  SelectsMissing =>
            /\ last.rs.issued = <<>>
            /\ ReachedValidation => last.cc = "invalidFieldRequest"

\* a request selecting CriticalLow and CriticalHigh on a sensor that exposes
\* only CriticalHigh, refused
C5_Witness ==
    LET
        \* the handler got as far as looking for the selected thresholds: the
        \* request has its 8 bytes, the sensor's tree was fetched, and the tree has
        \* a value interface with a range that can be linearized
        ReachedValidation ==
            /\ last.rq.dataLen = 8
            /\ last.rs.fetched
            /\ Has(last.rs.sensorMap, valueInterface)
            /\ getSensorAttributes(getSensorMaxMin(last.rs.sensorMap[valueInterface]).max,
                                   getSensorMaxMin(last.rs.sensorMap[valueInterface]).min).ok
        SelectableBits ==
            {"setLowerCritical", "setUpperCritical", "setLowerNonCritical",
             "setUpperNonCritical"}
        PropertyOf(bit) ==
            IF bit = "setLowerCritical" THEN "CriticalLow"
            ELSE IF bit = "setUpperCritical" THEN "CriticalHigh"
            ELSE IF bit = "setLowerNonCritical" THEN "WarningLow"
            ELSE "WarningHigh"
        \* the backend interface and property behind each selectable mask bit
        InterfaceOf(bit) ==
            IF bit \in {"setLowerCritical", "setUpperCritical"}
            THEN criticalInterface ELSE warningInterface
        \* the last request addressed an existing sensor and its mask selects a
        \* threshold whose interface or property that sensor does not expose
        SelectsMissing ==
            /\ last.op = "setThresholds"
            /\ last.rq.resolved # "none"
            /\ \E bit \in last.rq.req.mask \cap SelectableBits :
                  ~(/\ Has(last.rq.exposed, InterfaceOf(bit))
                    /\ Has(last.rq.exposed[InterfaceOf(bit)], PropertyOf(bit)))
    IN  /\ SelectsMissing
        /\ ReachedValidation
        /\ last.rq.req.mask = {"setLowerCritical", "setUpperCritical"}
        /\ Has(last.rq.exposed, criticalInterface)
        /\ Has(last.rq.exposed[criticalInterface], "CriticalHigh")
        /\ last.cc = "invalidFieldRequest"
        /\ last.rs.issued = <<>>

\* C11: an 8-byte set-thresholds request with a reserved or non-recoverable
\* mask bit returns invalid-field, one with an empty mask returns success,
\* and either makes no backend call and leaves all shared state as it was.
C11_MaskValidatedFirst ==
    [][LET
        EmptyMask(rq) == rq.dataLen = 8 /\ rq.req.mask = {}
        \* the last request was a set-thresholds request of 8 bytes whose mask the
        \* handler refuses or has nothing to do for
        RefusedMask(rq) ==
            /\ rq.dataLen = 8
            /\ rq.req.mask \cap {"reserved6", "reserved7", "setLowerNonRecoverable",
                                 "setUpperNonRecoverable"} # {}
      IN  (last'.op = "setThresholds"
            /\ (RefusedMask(last'.rq) \/ EmptyMask(last'.rq)))
           => /\ RefusedMask(last'.rq) => last'.cc = "invalidFieldRequest"
              /\ EmptyMask(last'.rq) => last'.cc = "ok"
              /\ last'.rs.issued = <<>>
              /\ ~last'.rs.enumerated
              /\ UNCHANGED <<sdrReservationID, sdrLastAdd, sdrLastRemove,
                             sensorTree, SensorCache, updateTimeMap,
                             thresholdDeassertMap, objects>>]_vars

\* a request with a non-recoverable bit refused while the sensor tree is
\* still to be looked up
C11_Witness ==
    /\ last.op = "setThresholds"
    /\ last.rq.dataLen = 8
    /\ last.rq.req.mask = {"setLowerNonRecoverable"}
    /\ last.cc = "invalidFieldRequest"
    /\ sensorTree = {}
    /\ SensorCache = EmptyMap

\* C12: after a set-thresholds request, every selected threshold property
\* has been written to the backend or none has.
C12_AllOrNothing ==
    LET
        SelectableBits ==
            {"setLowerCritical", "setUpperCritical", "setLowerNonCritical",
             "setUpperNonCritical"}
        \* the number of thresholds the last request's mask selects
        SelectedCount == Cardinality(last.rq.req.mask \cap SelectableBits)
    IN  last.op = "setThresholds" =>
            Len(last.rs.applied) \in {0, SelectedCount}

-----------------------------------------------------------------------------
(* Threshold engine: get-sensor-event-status *)

\* a boolean alarm property that is present in the tree and true
AlarmSet_PresentCounts(sensorMap, interface, name) ==
    Has(sensorMap, interface) /\ Has(sensorMap[interface], name)

AlarmSet(sensorMap, interface, name) ==
    /\ Has(sensorMap, interface)
    /\ Has(sensorMap[interface], name)
    /\ sensorMap[interface][name]

\* mutant: a latch without a value counts as a deassertion
DeassertReported_AbsentCounts(opt) == opt # Some(TRUE)

\* "deassert && !*deassert" on a std::optional<bool>
DeassertReported(opt) == HasValue(opt) /\ opt = Some(FALSE)

AlarmNames ==
    {"CriticalAlarmHigh", "CriticalAlarmLow", "WarningAlarmHigh",
     "WarningAlarmLow"}

Bit(condition, name) == IF condition THEN {name} ELSE {}

\* the SensorEventStatusResp the handler fills; each byte is the set of the
\* enumerators or-ed into it, extended tells the two response lengths apart
EventStatusResp(path, sensorMap) ==
    LET thresholds == Has(sensorMap, warningInterface)
                      \/ Has(sensorMap, criticalInterface)
    IN  [enabled |-> IF thresholds THEN {"eventMessagesEnable"}
                     ELSE {"sensorScanningEnable"},
         extended |-> thresholds,
         deassertionsMSB |->
            Bit(DeassertReported(Latch(path, "CriticalAlarmHigh")),
                "upperCriticalGoingHigh")
            \cup Bit(DeassertReported(Latch(path, "CriticalAlarmLow")),
                     "upperCriticalGoingLow"),
         deassertionsLSB |->
            Bit(DeassertReported(Latch(path, "WarningAlarmHigh")),
                "upperNonCriticalGoingHigh")
            \cup Bit(DeassertReported(Latch(path, "WarningAlarmLow")),
                     "lowerNonCriticalGoingHigh"),
         assertionsLSB |->
            Bit(AlarmSet(sensorMap, warningInterface, "WarningAlarmHigh"),
                "upperNonCriticalGoingHigh")
            \cup Bit(AlarmSet(sensorMap, warningInterface, "WarningAlarmLow"),
                     "0x01")
            \cup Bit(AlarmSet(sensorMap, criticalInterface, "CriticalAlarmLow"),
                     "lowerCriticalGoingLow"),
         assertionsMSB |->
            Bit(AlarmSet(sensorMap, criticalInterface, "CriticalAlarmHigh"),
                "upperCriticalGoingHigh")]

\* ipmiSenGetSensorEventStatus: the completion code, the response and the
\* state it leaves.  env: the outcomes of the backend calls it makes.
ipmiSenGetSensorEventStatus(dataLen, sensnum, env) ==
    LET
        NoEventStatus == [enabled |-> {}, extended |-> FALSE, deassertionsMSB |-> {},
                          deassertionsLSB |-> {}, assertionsLSB |-> {},
                          assertionsMSB |-> {}]
        \* thresholdDeassertMap after the four operator[] reads of the handler,
        \* which create the entries they do not find
        LatchesTouched(path) ==
            LET old == IF path \in DOMAIN thresholdDeassertMap
                       THEN thresholdDeassertMap[path] ELSE EmptyMap
            IN  MapPut(thresholdDeassertMap, path,
                       [n \in (DOMAIN old) \cup AlarmNames |->
                           IF n \in DOMAIN old THEN old[n] ELSE Nullopt])
        conn == getSensorConnection(sensnum, env.subtreeOK)
        fetch == getSensorMap(conn.connection, conn.path, env.enumOK)
    IN  IF dataLen # 1
        THEN [cc |-> "reqDataLenInvalid", rsp |-> NoEventStatus,
              sensorTree |-> sensorTree, fetch |-> NoFetch,
              thresholdDeassertMap |-> thresholdDeassertMap]
        ELSE IF conn.status # "ok"
        THEN [cc |-> conn.status, rsp |-> NoEventStatus,
              sensorTree |-> conn.sensorTree, fetch |-> NoFetch,
              thresholdDeassertMap |-> thresholdDeassertMap]
        ELSE IF ~fetch.ok
        THEN [cc |-> "responseError", rsp |-> NoEventStatus,
              sensorTree |-> conn.sensorTree, fetch |-> fetch,
              thresholdDeassertMap |-> thresholdDeassertMap]
        ELSE [cc |-> "ok", rsp |-> EventStatusResp(conn.path, fetch.sensorMap),
              sensorTree |-> conn.sensorTree, fetch |-> fetch,
              thresholdDeassertMap |-> LatchesTouched(conn.path)]

\* the get-sensor-event-status handler as a step
GetEventStatus(dataLen, sensnum, env) ==
    LET
        \* what the previous request reported, when it was a successful event-status
        \* request for the same sensor
        PreviousStatus ==
            IF last.op = "getEventStatus" /\ last.cc = "ok" /\ last.rq.sensnum = sensnum
            THEN <<last.rs.rsp>> ELSE <<>>
    IN  \E r \in {ipmiSenGetSensorEventStatus(dataLen, sensnum, env)} :
            /\ sensorTree' = r.sensorTree
            /\ SensorCache' = r.fetch.SensorCache
            /\ updateTimeMap' = r.fetch.updateTimeMap
            /\ fillTime' = r.fetch.fillTime
            /\ thresholdDeassertMap' = r.thresholdDeassertMap
            /\ last' = [op |-> "getEventStatus",
                        rq |-> [dataLen |-> dataLen, sensnum |-> sensnum,
                                path |-> NthPath(r.sensorTree, sensnum, 1)],
                        cc |-> r.cc,
                        rs |-> [rsp |-> r.rsp, sensorMap |-> r.fetch.sensorMap,
                                previous |-> PreviousStatus]]
            /\ UNCHANGED <<sdrReservationID, sdrLastAdd, sdrLastRemove, now,
                           objects, fruCount, signals, reserveCount, lastReserve,
                           firstChunk, signalSinceReserve, everAsserted>>

LookupEnvs ==
    {[subtreeOK |-> TRUE, enumOK |-> TRUE],
     [subtreeOK |-> FALSE, enumOK |-> TRUE],
     [subtreeOK |-> TRUE, enumOK |-> FALSE]}

NextStatus ==
    \* threshold signals of one sensor, one alarm property each
    \/ \E n \in AlarmNames, b \in BOOLEAN : thresholdChanged("p1", (n :> Bool(b)))
    \/ \E sensnum \in 0..1, env \in LookupEnvs : GetEventStatus(1, sensnum, env)
    \/ GetEventStatus(2, 0, [subtreeOK |-> TRUE, enumOK |-> TRUE])

SpecStatus == InitNoFru /\ [][NextStatus]_vars

\* C13: in an event-status response each threshold's deassertion bit is set
\* exactly when the latch of (the sensor's path, the threshold's alarm name)
\* holds the value false.
C13_DeassertionBitIffLatchFalse ==
    LET
        \* the deassertion byte and bit of each threshold's alarm
        DeassertionBitOf(name) ==
            IF name = "CriticalAlarmHigh"
            THEN [byte |-> "deassertionsMSB", bit |-> "upperCriticalGoingHigh"]
            ELSE IF name = "CriticalAlarmLow"
            THEN [byte |-> "deassertionsMSB", bit |-> "upperCriticalGoingLow"]
            ELSE IF name = "WarningAlarmHigh"
            THEN [byte |-> "deassertionsLSB", bit |-> "upperNonCriticalGoingHigh"]
            ELSE [byte |-> "deassertionsLSB", bit |-> "lowerNonCriticalGoingHigh"]
        DeassertionBitSet(rsp, name) ==
            DeassertionBitOf(name).bit \in rsp[DeassertionBitOf(name).byte]
    IN  (last.op = "getEventStatus" /\ last.cc = "ok") =>
            \A name \in AlarmNames :
                DeassertionBitSet(last.rs.rsp, name)
                    <=> (/\ last.rq.path \in DOMAIN thresholdDeassertMap
                         /\ name \in DOMAIN thresholdDeassertMap[last.rq.path]
                         /\ thresholdDeassertMap[last.rq.path][name] = <<FALSE>>)

\* a response with one latch false, one true and the others without a value
C13_Witness ==
    /\ last.op = "getEventStatus"
    /\ last.cc = "ok"
    /\ last.rq.path = "p1"
    /\ thresholdDeassertMap["p1"]["CriticalAlarmLow"] = <<FALSE>>
    /\ thresholdDeassertMap["p1"]["WarningAlarmHigh"] = <<TRUE>>
    /\ thresholdDeassertMap["p1"]["CriticalAlarmHigh"] = <<>>
    /\ last.rs.rsp.deassertionsMSB = {"upperCriticalGoingLow"}
    /\ last.rs.rsp.deassertionsLSB = {}

\* C27: among notifications that carry a single boolean alarm property, a
\* notification for a key that has seen a true (this one included) leaves the
\* key's latch at the boolean it carries, and no other step changes a latch
\* that holds a value; so such a latch equals the most recent notification's
\* boolean.
C27_LatchFollowsLastNotification ==
    [][LET
        \* the step is a threshold-change notification for path that carries the
        \* single boolean alarm property name with the value alarm
        NotifiedStep(path, name, alarm) ==
            /\ last'.op = "thresholdChanged"
            /\ last'.rq.path = path
            /\ last'.rq.values = (name :> Bool(alarm))
      IN  \A path \in Paths, name \in AlarmNames :
              /\ \A alarm \in BOOLEAN :
                    (NotifiedStep(path, name, alarm)
                     /\ <<path, name>> \in everAsserted')
                        => Latch(path, name)' = Some(alarm)
              /\ (/\ <<path, name>> \in everAsserted
                   /\ \A alarm \in BOOLEAN : ~NotifiedStep(path, name, alarm))
                        => Latch(path, name)' = Latch(path, name)]_vars

\* an asserted latch that the latest notification for its key set to false
C27_Witness ==
    /\ last.op = "thresholdChanged"
    /\ last.rq.values = ("WarningAlarmHigh" :> Bool(FALSE))
    /\ <<last.rq.path, "WarningAlarmHigh">> \in last.rq.assertedBefore
    /\ Latch(last.rq.path, "WarningAlarmHigh") = Some(FALSE)

\* C20: when an event-status request follows another one for the same sensor
\* with no threshold signal in between, it reports none of the deassertion
\* bits the first one reported.
C20_DeassertionReportedOnce ==
    (last.op = "getEventStatus" /\ last.cc = "ok" /\ last.rs.previous # <<>>) =>
        /\ last.rs.rsp.deassertionsMSB
              \cap last.rs.previous[1].deassertionsMSB = {}
        /\ last.rs.rsp.deassertionsLSB
              \cap last.rs.previous[1].deassertionsLSB = {}

-----------------------------------------------------------------------------
(* Sensor reading: get-sensor-reading *)

\* mutant: the event-messages bit is left out of the operation byte
ReadingOperation_ScanningOnly == {"sensorScanningEnable"}

\* operation = sensorScanningEnable | eventMessagesEnable
ReadingOperation == {"sensorScanningEnable", "eventMessagesEnable"}

\* the threshold byte: one IPMISensorReadingByte3 enumerator per alarm that
\* is present and true
ReadingThresholds(sensorMap) ==
    Bit(AlarmSet(sensorMap, warningInterface, "WarningAlarmHigh"),
        "upperNonCritical")
    \cup Bit(AlarmSet(sensorMap, warningInterface, "WarningAlarmLow"),
             "lowerNonCritical")
    \cup Bit(AlarmSet(sensorMap, criticalInterface, "CriticalAlarmHigh"),
             "upperCritical")
    \cup Bit(AlarmSet(sensorMap, criticalInterface, "CriticalAlarmLow"),
             "lowerCritical")

NoReading == [value |-> 0, operation |-> {}, thresholds |-> {}]

\* ipmiSenGetSensorReading(sensnum): the completion code, the response and
\* the state it leaves.  env: the outcomes of the backend calls it makes.
ipmiSenGetSensorReading(sensnum, env) ==
    LET conn == getSensorConnection(sensnum, env.subtreeOK)
        fetch == getSensorMap(conn.connection, conn.path, env.enumOK)
        sensorMap == fetch.sensorMap
        mm == getSensorMaxMin(sensorMap[valueInterface])
        a == getSensorAttributes(mm.max, mm.min)
    IN  IF conn.status # "ok"
        THEN [cc |-> conn.status, rsp |-> NoReading,
              sensorTree |-> conn.sensorTree, fetch |-> NoFetch]
        ELSE IF ~fetch.ok
        THEN [cc |-> "responseError", rsp |-> NoReading,
              sensorTree |-> conn.sensorTree, fetch |-> fetch]
        ELSE IF ~Has(sensorMap, valueInterface)
                \/ ~Has(sensorMap[valueInterface], "Value")
        THEN [cc |-> "responseError", rsp |-> NoReading,
              sensorTree |-> conn.sensorTree, fetch |-> fetch]
        ELSE IF ~a.ok
        THEN [cc |-> "responseError", rsp |-> NoReading,
              sensorTree |-> conn.sensorTree, fetch |-> fetch]
        ELSE [cc |-> "ok",
              rsp |-> [value |-> scaleIPMIValueFromDouble(
                                     sensorMap[valueInterface]["Value"], a),
                       operation |-> ReadingOperation,
                       thresholds |-> ReadingThresholds(sensorMap)],
              sensorTree |-> conn.sensorTree, fetch |-> fetch]

\* the get-sensor-reading handler as a step
GetReading(sensnum, env) ==
    \E r \in {ipmiSenGetSensorReading(sensnum, env)} :
        /\ sensorTree' = r.sensorTree
        /\ SensorCache' = r.fetch.SensorCache
        /\ updateTimeMap' = r.fetch.updateTimeMap
        /\ fillTime' = r.fetch.fillTime
        /\ last' = [op |-> "getReading",
                    rq |-> [sensnum |-> sensnum,
                            path |-> NthPath(r.sensorTree, sensnum, 1)],
                    cc |-> r.cc,
                    rs |-> [rsp |-> r.rsp, fetched |-> r.fetch.ok,
                            sensorMap |-> r.fetch.sensorMap]]
        /\ UNCHANGED <<sdrReservationID, sdrLastAdd, sdrLastRemove,
                       thresholdDeassertMap, now, objects, fruCount, signals,
                       reserveCount, lastReserve, firstChunk,
                       signalSinceReserve, everAsserted>>

\* FullSensor with the given alarm states
WithAlarms(warningLow, warningHigh, criticalLow, criticalHigh) ==
    (valueInterface :> [Value |-> 10, MinValue |-> -128, MaxValue |-> 127])
    @@ (warningInterface :> [WarningLow |-> -20, WarningHigh |-> 50,
                             WarningAlarmLow |-> warningLow,
                             WarningAlarmHigh |-> warningHigh])
    @@ (criticalInterface :> [CriticalLow |-> -40, CriticalHigh |-> 90,
                              CriticalAlarmLow |-> criticalLow,
                              CriticalAlarmHigh |-> criticalHigh])

\* a sensor of range [0, 100] reading 42, without threshold interfaces
PercentSensor ==
    (valueInterface :> [Value |-> 42, MinValue |-> 0, MaxValue |-> 100])

InitReading ==
    LET
        \* a value interface without the Value property
        NoReadingSensor ==
            (valueInterface :> [MinValue |-> 0, MaxValue |-> 255])
        \* a sensor with thresholds but without any alarm property, range
        \* [0, 100]
        NoAlarmSensor ==
            (valueInterface :> [Value |-> 42, MinValue |-> 0, MaxValue |-> 100])
            @@ (criticalInterface :> [CriticalLow |-> 1, CriticalHigh |-> 90])
    IN
    /\ InitProgram(0)
    /\ \E wl \in BOOLEAN, wh \in BOOLEAN, cl \in BOOLEAN, ch \in BOOLEAN :
       \E second \in {PercentSensor, NoReadingSensor, FlatSensor} :
       \E third \in {PartialSensor, NoAlarmSensor, NoValueSensor} :
          objects = ("p1" :> WithAlarms(wl, wh, cl, ch)) @@ ("p2" :> second)
                    @@ ("p3" :> third)
    /\ fruCount = 0

NextReading ==
    \E sensnum \in 0..Cardinality(Paths), env \in LookupEnvs :
        GetReading(sensnum, env)

SpecReading == InitReading /\ [][NextReading]_vars

\* C14: a reading of a sensor whose tree has a value interface with a Value
\* and a linearizable range and no threshold interface succeeds with both
\* the scanning and the event-messages bit, no threshold alarm bit, and the
\* raw value the codec encodes Value to.
C14_PlainReading ==
    LET
        \* encode(Value, deriveParameters(min, max)) for the fetched tree
        EncodedValue ==
            scaleIPMIValueFromDouble(
                last.rs.sensorMap[valueInterface]["Value"],
                getSensorAttributes(
                    getSensorMaxMin(last.rs.sensorMap[valueInterface]).max,
                    getSensorMaxMin(last.rs.sensorMap[valueInterface]).min))
        \* the tree the last reading request fetched has a value interface with a
        \* Value and a range that can be linearized
        ReadableTree ==
            /\ last.rs.fetched
            /\ Has(last.rs.sensorMap, valueInterface)
            /\ Has(last.rs.sensorMap[valueInterface], "Value")
            /\ getSensorAttributes(
                   getSensorMaxMin(last.rs.sensorMap[valueInterface]).max,
                   getSensorMaxMin(last.rs.sensorMap[valueInterface]).min).ok
    IN  (/\ last.op = "getReading"
         /\ ReadableTree
         /\ ~Has(last.rs.sensorMap, warningInterface)
         /\ ~Has(last.rs.sensorMap, criticalInterface))
        => /\ last.cc = "ok"
           /\ last.rs.rsp.operation = {"sensorScanningEnable", "eventMessagesEnable"}
           /\ last.rs.rsp.thresholds = {}
           /\ last.rs.rsp.value = EncodedValue

\* a reading of the sensor of range [0, 100] reading 42
C14_Witness ==
    /\ last.op = "getReading"
    /\ last.cc = "ok"
    /\ last.rs.sensorMap = PercentSensor
    /\ last.rs.rsp.thresholds = {}
    /\ last.rs.rsp.value = 42

\* C15: in a successful reading each threshold-alarm bit is set exactly when
\* its alarm property is present in the fetched tree and true.
C15_AlarmBitsFromPresentAlarms ==
    LET
        \* the threshold-alarm bit of each alarm property, with its interface
        ReadingBits ==
            {[bit |-> "upperNonCritical", interface |-> warningInterface,
              alarm |-> "WarningAlarmHigh"],
             [bit |-> "lowerNonCritical", interface |-> warningInterface,
              alarm |-> "WarningAlarmLow"],
             [bit |-> "upperCritical", interface |-> criticalInterface,
              alarm |-> "CriticalAlarmHigh"],
             [bit |-> "lowerCritical", interface |-> criticalInterface,
              alarm |-> "CriticalAlarmLow"]}
    IN  (last.op = "getReading" /\ last.cc = "ok") =>
            \A b \in ReadingBits :
                b.bit \in last.rs.rsp.thresholds
                    <=> (/\ b.interface \in DOMAIN last.rs.sensorMap
                         /\ b.alarm \in DOMAIN last.rs.sensorMap[b.interface]
                         /\ last.rs.sensorMap[b.interface][b.alarm] = TRUE)

\* a reading whose tree has one alarm true, one false and no warning alarm set
C15_Witness ==
    /\ last.op = "getReading"
    /\ last.cc = "ok"
    /\ last.rs.sensorMap = WithAlarms(FALSE, FALSE, TRUE, FALSE)
    /\ last.rs.rsp.thresholds = {"lowerCritical"}

-----------------------------------------------------------------------------
(* Linearization codec: a request byte decoded by the formula of
   ipmiSenSetSensorThresholds and encoded back as ipmiSenGetSensorReading
   encodes a value *)

\* one request byte through the decode formula and the encode, under the
\* parameters derived for the range; the byte enters the decode as the
\* uint8_t of the request whatever domain the parameters select
RoundTrip(range, raw) ==
    \E a \in {getSensorAttributes(range.max, range.min)} :
        /\ last' = [op |-> "roundTrip",
                    rq |-> [range |-> range, raw |-> raw],
                    cc |-> IF a.ok THEN "ok" ELSE "responseError",
                    rs |-> [attributes |-> a,
                            decoded |-> ValueToSet(raw, a),
                            encoded |-> IF a.ok
                                        THEN scaleIPMIValueFromDouble(
                                                 ValueToSet(raw, a), a)
                                        ELSE 0]]
        /\ UNCHANGED <<sdrReservationID, sdrLastAdd, sdrLastRemove, sensorTree,
                       SensorCache, updateTimeMap, thresholdDeassertMap, now,
                       objects, fruCount, signals, reserveCount, lastReserve,
                       firstChunk, signalSinceReserve, fillTime, everAsserted>>

\* the bytes tried: every eighth one and the one before it, among them 0x7F,
\* 0x80 and the ends of the byte
NextCodec ==
    \E range \in {[min |-> 0, max |-> 255], [min |-> 0, max |-> 100],
                  [min |-> 10, max |-> 1000], [min |-> -128, max |-> 127],
                  [min |-> -100, max |-> 300], [min |-> 5, max |-> 5]},
       raw \in {r \in 0..(uint8Mod - 1) : r % 8 \in {0, 7}} :
        RoundTrip(range, raw)

SpecCodec == InitNoFru /\ [][NextCodec]_vars

\* C22: whenever parameters are derived for the range, every raw value of the
\* domain they select (a byte >= 0x80 stands for byte - 256 when the domain
\* is signed), decoded and encoded again, comes back as itself.
C22_EncodeDecodeRoundTrip ==
    (last.op = "roundTrip" /\ last.rs.attributes.ok) =>
        last.rs.encoded = last.rq.raw

-----------------------------------------------------------------------------
(* Threshold engine: get-sensor-thresholds *)

NoThresholdsResp ==
    [readable |-> {}, lowerNC |-> 0, lowerCritical |-> 0,
     lowerNonRecoverable |-> 0, upperNC |-> 0, upperCritical |-> 0,
     upperNonRecoverable |-> 0]

\* the response ipmiSenGetSensorThresholds builds from getIPMIThresholds
ThresholdsResp(thresholdData) ==
    LET
        \* a threshold byte of the response: the encoded threshold, 0 when absent
        ByteOrZero(threshold) == IF threshold = NoThreshold THEN 0 ELSE threshold
    IN  [readable |->
             Bit(thresholdData.warningHigh # NoThreshold, "upperNonCritical")
             \cup Bit(thresholdData.warningLow # NoThreshold, "lowerNonCritical")
             \cup Bit(thresholdData.criticalHigh # NoThreshold, "upperCritical")
             \cup Bit(thresholdData.criticalLow # NoThreshold, "lowerCritical"),
         lowerNC |-> ByteOrZero(thresholdData.warningLow),
         lowerCritical |-> ByteOrZero(thresholdData.criticalLow),
         lowerNonRecoverable |-> 0,
         upperNC |-> ByteOrZero(thresholdData.warningHigh),
         upperCritical |-> ByteOrZero(thresholdData.criticalHigh),
         upperNonRecoverable |-> 0]

\* ipmiSenGetSensorThresholds(sensorNumber): the completion code, the
\* response and the state it leaves.  env: the outcomes of the backend calls.
ipmiSenGetSensorThresholds(sensorNumber, env) ==
    LET conn == getSensorConnection(sensorNumber, env.subtreeOK)
        fetch == getSensorMap(conn.connection, conn.path, env.enumOK)
        thresholdData == getIPMIThresholds(fetch.sensorMap)
    IN  IF conn.status # "ok"
        THEN [cc |-> conn.status, rsp |-> NoThresholdsResp,
              sensorTree |-> conn.sensorTree, fetch |-> NoFetch]
        ELSE IF ~fetch.ok
        THEN [cc |-> "responseError", rsp |-> NoThresholdsResp,
              sensorTree |-> conn.sensorTree, fetch |-> fetch]
        ELSE IF ~thresholdData.ok
        THEN [cc |-> "responseError", rsp |-> NoThresholdsResp,
              sensorTree |-> conn.sensorTree, fetch |-> fetch]
        ELSE [cc |-> "ok", rsp |-> ThresholdsResp(thresholdData),
              sensorTree |-> conn.sensorTree, fetch |-> fetch]

\* the get-sensor-thresholds handler as a step
GetThresholds(sensorNumber, env) ==
    \E r \in {ipmiSenGetSensorThresholds(sensorNumber, env)} :
        /\ sensorTree' = r.sensorTree
        /\ SensorCache' = r.fetch.SensorCache
        /\ updateTimeMap' = r.fetch.updateTimeMap
        /\ fillTime' = r.fetch.fillTime
        /\ last' = [op |-> "getThresholds",
                    rq |-> [sensnum |-> sensorNumber,
                            path |-> NthPath(r.sensorTree, sensorNumber, 1)],
                    cc |-> r.cc,
                    rs |-> [rsp |-> r.rsp, fetched |-> r.fetch.ok,
                            sensorMap |-> r.fetch.sensorMap]]
        /\ UNCHANGED <<sdrReservationID, sdrLastAdd, sdrLastRemove,
                       thresholdDeassertMap, now, objects, fruCount, signals,
                       reserveCount, lastReserve, firstChunk,
                       signalSinceReserve, everAsserted>>

-----------------------------------------------------------------------------
(* Sensors whose data cannot be served: a range that cannot be linearized,
   a threshold interface without a value interface *)

InitUnservable ==
    LET
        \* MinValue = MaxValue and no threshold interface
        FlatPlainSensor ==
            (valueInterface :> [Value |-> 5, MinValue |-> 5, MaxValue |-> 5])
        \* a warning interface but no value interface
        NoValueWarningSensor ==
            (warningInterface :> [WarningLow |-> 1, WarningHigh |-> 9])
    IN
    /\ InitProgram(0)
    /\ \E first \in {FlatSensor, FlatPlainSensor} :
       \E second \in {NoValueSensor, NoValueWarningSensor} :
          objects = ("p1" :> first) @@ ("p2" :> second) @@ ("p3" :> FullSensor)
    /\ fruCount = 1

NextUnservable ==
    \/ \E sensnum \in 0..Cardinality(Paths), env \in LookupEnvs :
          GetReading(sensnum, env)
    \/ \E sensnum \in 0..Cardinality(Paths), env \in LookupEnvs :
          GetThresholds(sensnum, env)
    \* set-threshold requests for every sensor number: an empty mask and one
    \* that selects the upper critical threshold
    \/ \E req \in {r \in ThresholdRequests : r.mask \in {{}, {"setUpperCritical"}}},
          env \in LookupEnvs :
          SetThresholds(8, req, [subtreeOK |-> env.subtreeOK,
                                 enumOK |-> env.enumOK, failAt |-> 0])
    \/ \E recordID \in 0..Cardinality(Paths), env \in Envs :
          GetSDR(0, recordID, 0, fullRecordSize, env)

SpecUnservable == InitUnservable /\ [][NextUnservable]_vars

\* C23 as stated: for a sensor whose range cannot be linearized, reading,
\* get-thresholds, set-thresholds and get-record requests are refused with
\* response error and no payload, and set-thresholds writes nothing.
C23_UnlinearizableResponseError ==
    LET
        \* what every whole-record read answers in the current state
        RecordReads ==
            {ipmiStorageGetSDR(0, recordID, 0, fullRecordSize, env) :
                recordID \in ReqRecordIDs, env \in Envs}
        \* a record read refused with response error and no payload
        RecordRefused(r) == r.rsp.cc = "responseError" /\ r.rsp.payload = NoPayload
        \* the last request was refused with response error, without a payload and
        \* without a backend write
        RefusedWithResponseError ==
            /\ last.cc = "responseError"
            /\ last.op = "getReading" => last.rs.rsp = NoReading
            /\ last.op = "getThresholds" => last.rs.rsp = NoThresholdsResp
            /\ last.op = "setThresholds" => last.rs.issued = <<>>
        \* the last request was a reading, get-thresholds or set-thresholds (of 8
        \* bytes, with a non-empty valid mask) request whose handler fetched the tree
        \* of the sensor
        FetchedBy(ops) ==
            /\ last.op \in ops
            /\ last.rs.fetched
            /\ last.op = "setThresholds" =>
                  /\ last.rq.dataLen = 8
                  /\ last.rq.req.mask # {}
                  /\ last.rq.req.mask \cap (ReservedBits \cup NonRecoverableBits) = {}
        \* the tree has a value interface whose MinValue and MaxValue make a range
        \* that cannot be linearized
        Unlinearizable(sensorMap) ==
            /\ Has(sensorMap, valueInterface)
            /\ Has(sensorMap[valueInterface], "MinValue")
            /\ Has(sensorMap[valueInterface], "MaxValue")
            /\ ~getSensorAttributes(sensorMap[valueInterface]["MaxValue"],
                                    sensorMap[valueInterface]["MinValue"]).ok
    IN  /\ (FetchedBy({"getReading", "getThresholds", "setThresholds"})
            /\ Unlinearizable(last.rs.sensorMap)) => RefusedWithResponseError
        /\ \A r \in RecordReads :
              (r.fetch.ok /\ Unlinearizable(r.fetch.sensorMap)) => RecordRefused(r)

\* C23 as amended: the same, except that get-thresholds is refused only when
\* the sensor has a threshold interface; without one it answers success with
\* no readable threshold.
C23_UnlinearizableWhereDerived ==
    LET
        \* what every whole-record read answers in the current state
        RecordReads ==
            {ipmiStorageGetSDR(0, recordID, 0, fullRecordSize, env) :
                recordID \in ReqRecordIDs, env \in Envs}
        \* a record read refused with response error and no payload
        RecordRefused(r) == r.rsp.cc = "responseError" /\ r.rsp.payload = NoPayload
        \* the last request was refused with response error, without a payload and
        \* without a backend write
        RefusedWithResponseError ==
            /\ last.cc = "responseError"
            /\ last.op = "getReading" => last.rs.rsp = NoReading
            /\ last.op = "getThresholds" => last.rs.rsp = NoThresholdsResp
            /\ last.op = "setThresholds" => last.rs.issued = <<>>
        \* the last request was a reading, get-thresholds or set-thresholds (of 8
        \* bytes, with a non-empty valid mask) request whose handler fetched the tree
        \* of the sensor
        FetchedBy(ops) ==
            /\ last.op \in ops
            /\ last.rs.fetched
            /\ last.op = "setThresholds" =>
                  /\ last.rq.dataLen = 8
                  /\ last.rq.req.mask # {}
                  /\ last.rq.req.mask \cap (ReservedBits \cup NonRecoverableBits) = {}
        \* the tree has a threshold interface
        HasThresholdInterface(sensorMap) ==
            Has(sensorMap, warningInterface) \/ Has(sensorMap, criticalInterface)
        \* the tree has a value interface whose MinValue and MaxValue make a range
        \* that cannot be linearized
        Unlinearizable(sensorMap) ==
            /\ Has(sensorMap, valueInterface)
            /\ Has(sensorMap[valueInterface], "MinValue")
            /\ Has(sensorMap[valueInterface], "MaxValue")
            /\ ~getSensorAttributes(sensorMap[valueInterface]["MaxValue"],
                                    sensorMap[valueInterface]["MinValue"]).ok
    IN  /\ (FetchedBy({"getReading", "setThresholds"})
            /\ Unlinearizable(last.rs.sensorMap)) => RefusedWithResponseError
        /\ (FetchedBy({"getThresholds"}) /\ Unlinearizable(last.rs.sensorMap)) =>
              IF HasThresholdInterface(last.rs.sensorMap)
              THEN RefusedWithResponseError
              ELSE last.cc = "ok" /\ last.rs.rsp = NoThresholdsResp
        /\ \A r \in RecordReads :
              (r.fetch.ok /\ Unlinearizable(r.fetch.sensorMap)) => RecordRefused(r)

\* a set-thresholds request for the sensor of flat range, refused
C23_Witness ==
    LET
        \* the last request was a reading, get-thresholds or set-thresholds (of 8
        \* bytes, with a non-empty valid mask) request whose handler fetched the tree
        \* of the sensor
        FetchedBy(ops) ==
            /\ last.op \in ops
            /\ last.rs.fetched
            /\ last.op = "setThresholds" =>
                  /\ last.rq.dataLen = 8
                  /\ last.rq.req.mask # {}
                  /\ last.rq.req.mask \cap (ReservedBits \cup NonRecoverableBits) = {}
        \* the tree has a value interface whose MinValue and MaxValue make a range
        \* that cannot be linearized
        Unlinearizable(sensorMap) ==
            /\ Has(sensorMap, valueInterface)
            /\ Has(sensorMap[valueInterface], "MinValue")
            /\ Has(sensorMap[valueInterface], "MaxValue")
            /\ ~getSensorAttributes(sensorMap[valueInterface]["MaxValue"],
                                    sensorMap[valueInterface]["MinValue"]).ok
    IN  /\ FetchedBy({"setThresholds"})
        /\ Unlinearizable(last.rs.sensorMap)
        /\ last.cc = "responseError"
        /\ SensorCache # EmptyMap

\* C24: for a sensor with a threshold interface and no value interface,
\* get-thresholds, reading and get-record requests are refused with response
\* error and no payload.
C24_InconsistentTreeResponseError ==
    LET
        \* what every whole-record read answers in the current state
        RecordReads ==
            {ipmiStorageGetSDR(0, recordID, 0, fullRecordSize, env) :
                recordID \in ReqRecordIDs, env \in Envs}
        \* a record read refused with response error and no payload
        RecordRefused(r) == r.rsp.cc = "responseError" /\ r.rsp.payload = NoPayload
        \* the last request was refused with response error, without a payload and
        \* without a backend write
        RefusedWithResponseError ==
            /\ last.cc = "responseError"
            /\ last.op = "getReading" => last.rs.rsp = NoReading
            /\ last.op = "getThresholds" => last.rs.rsp = NoThresholdsResp
            /\ last.op = "setThresholds" => last.rs.issued = <<>>
        \* the last request was a reading, get-thresholds or set-thresholds (of 8
        \* bytes, with a non-empty valid mask) request whose handler fetched the tree
        \* of the sensor
        FetchedBy(ops) ==
            /\ last.op \in ops
            /\ last.rs.fetched
            /\ last.op = "setThresholds" =>
                  /\ last.rq.dataLen = 8
                  /\ last.rq.req.mask # {}
                  /\ last.rq.req.mask \cap (ReservedBits \cup NonRecoverableBits) = {}
        \* the tree has a threshold interface
        HasThresholdInterface(sensorMap) ==
            Has(sensorMap, warningInterface) \/ Has(sensorMap, criticalInterface)
        \* the tree has a threshold interface but no value interface
        Inconsistent(sensorMap) ==
            HasThresholdInterface(sensorMap) /\ ~Has(sensorMap, valueInterface)
    IN  /\ (FetchedBy({"getReading", "getThresholds"})
            /\ Inconsistent(last.rs.sensorMap)) => RefusedWithResponseError
        /\ \A r \in RecordReads :
              (r.fetch.ok /\ Inconsistent(r.fetch.sensorMap)) => RecordRefused(r)

\* a get-thresholds request for a sensor with only a warning interface,
\* refused
C24_Witness ==
    LET
        \* the last request was a reading, get-thresholds or set-thresholds (of 8
        \* bytes, with a non-empty valid mask) request whose handler fetched the tree
        \* of the sensor
        FetchedBy(ops) ==
            /\ last.op \in ops
            /\ last.rs.fetched
            /\ last.op = "setThresholds" =>
                  /\ last.rq.dataLen = 8
                  /\ last.rq.req.mask # {}
                  /\ last.rq.req.mask \cap (ReservedBits \cup NonRecoverableBits) = {}
        \* the tree has a threshold interface
        HasThresholdInterface(sensorMap) ==
            Has(sensorMap, warningInterface) \/ Has(sensorMap, criticalInterface)
        \* the tree has a threshold interface but no value interface
        Inconsistent(sensorMap) ==
            HasThresholdInterface(sensorMap) /\ ~Has(sensorMap, valueInterface)
    IN  /\ FetchedBy({"getThresholds"})
        /\ Inconsistent(last.rs.sensorMap)
        /\ Has(last.rs.sensorMap, warningInterface)
        /\ last.cc = "responseError"

-----------------------------------------------------------------------------
(* Threshold engine: get-sensor-event-enable *)

\* the SensorEventEnableResp the handler fills; each byte is the set of the
\* enumerators or-ed into it, extended tells the two response lengths apart
EventEnableResp(sensorMap) ==
    LET ThresholdPresent(interface, name) ==
            Has(sensorMap, interface) /\ Has(sensorMap[interface], name)
    IN  IF Has(sensorMap, warningInterface) \/ Has(sensorMap, criticalInterface)
        THEN [enabled |-> {"sensorScanningEnable"},
              extended |-> TRUE,
              assertionEnabledLSB |->
                 Bit(ThresholdPresent(warningInterface, "WarningHigh"),
                     "upperNonCriticalGoingHigh")
                 \cup Bit(ThresholdPresent(warningInterface,
                                           "WarningLow"),
                          "lowerNonCriticalGoingLow")
                 \cup Bit(ThresholdPresent(criticalInterface,
                                           "CriticalLow"),
                          "lowerCriticalGoingLow"),
              assertionEnabledMSB |->
                 Bit(ThresholdPresent(criticalInterface, "CriticalHigh"),
                     "upperCriticalGoingHigh"),
              deassertionEnabledLSB |->
                 Bit(ThresholdPresent(warningInterface, "WarningHigh"),
                     "upperNonCriticalGoingLow")
                 \cup Bit(ThresholdPresent(warningInterface,
                                           "WarningLow"),
                          "lowerNonCriticalGoingHigh")
                 \cup Bit(ThresholdPresent(criticalInterface,
                                           "CriticalLow"),
                          "lowerCriticalGoingHigh"),
              deassertionEnabledMSB |->
                 Bit(ThresholdPresent(criticalInterface, "CriticalHigh"),
                     "upperCriticalGoingLow")]
        ELSE [enabled |-> {"eventMessagesEnable", "sensorScanningEnable"},
              extended |-> FALSE,
              assertionEnabledLSB |-> {}, assertionEnabledMSB |-> {},
              deassertionEnabledLSB |-> {}, deassertionEnabledMSB |-> {}]

\* ipmiSenGetSensorEventEnable: the completion code, the response and the
\* state it leaves.  env: the outcomes of the backend calls it makes.
ipmiSenGetSensorEventEnable(dataLen, sensnum, env) ==
    LET
        NoEventEnable == [enabled |-> {}, extended |-> FALSE,
                          assertionEnabledLSB |-> {}, assertionEnabledMSB |-> {},
                          deassertionEnabledLSB |-> {}, deassertionEnabledMSB |-> {}]
        conn == getSensorConnection(sensnum, env.subtreeOK)
        fetch == getSensorMap(conn.connection, conn.path, env.enumOK)
    IN  IF dataLen # 1
        THEN [cc |-> "reqDataLenInvalid", rsp |-> NoEventEnable,
              sensorTree |-> sensorTree, fetch |-> NoFetch]
        ELSE IF conn.status # "ok"
        THEN [cc |-> conn.status, rsp |-> NoEventEnable,
              sensorTree |-> conn.sensorTree, fetch |-> NoFetch]
        ELSE IF ~fetch.ok
        THEN [cc |-> "responseError", rsp |-> NoEventEnable,
              sensorTree |-> conn.sensorTree, fetch |-> fetch]
        ELSE [cc |-> "ok", rsp |-> EventEnableResp(fetch.sensorMap),
              sensorTree |-> conn.sensorTree, fetch |-> fetch]

\* the get-sensor-event-enable handler as a step
GetEventEnable(dataLen, sensnum, env) ==
    \E r \in {ipmiSenGetSensorEventEnable(dataLen, sensnum, env)} :
        /\ sensorTree' = r.sensorTree
        /\ SensorCache' = r.fetch.SensorCache
        /\ updateTimeMap' = r.fetch.updateTimeMap
        /\ fillTime' = r.fetch.fillTime
        /\ last' = [op |-> "getEventEnable",
                    rq |-> [dataLen |-> dataLen, sensnum |-> sensnum,
                            path |-> NthPath(r.sensorTree, sensnum, 1)],
                    cc |-> r.cc,
                    rs |-> [rsp |-> r.rsp, sensorMap |-> r.fetch.sensorMap]]
        /\ UNCHANGED <<sdrReservationID, sdrLastAdd, sdrLastRemove,
                       thresholdDeassertMap, now, objects, fruCount, signals,
                       reserveCount, lastReserve, firstChunk,
                       signalSinceReserve, everAsserted>>

NextMinimal ==
    \* threshold signals seen for the sensor without threshold interfaces
    \/ \E n \in {"WarningAlarmHigh", "CriticalAlarmLow"}, b \in BOOLEAN :
          thresholdChanged("p2", (n :> Bool(b)))
    \/ \E dataLen \in 1..2, sensnum \in 0..1, env \in LookupEnvs :
          GetEventEnable(dataLen, sensnum, env)
    \/ \E sensnum \in 0..1 : GetEventStatus(1, sensnum, AllOK)

SpecMinimal == InitNoFru /\ [][NextMinimal]_vars

\* C26: for a sensor with neither a warning nor a critical interface, the
\* event-enable and the event-status response are the fixed minimal one: the
\* short layout, the enabled byte with both event messages and scanning
\* enabled, and no assertion or deassertion bit, whatever the latch map holds.
C26_MinimalResponseFixed ==
    LET
        \* the request was answered from a tree with neither threshold interface
        NoThresholdInterfaces(sensorMap) ==
            ~Has(sensorMap, warningInterface) /\ ~Has(sensorMap, criticalInterface)
    IN  /\ (/\ last.op = "getEventEnable"
             /\ last.cc = "ok"
             /\ NoThresholdInterfaces(last.rs.sensorMap)) =>
                /\ ~last.rs.rsp.extended
                /\ last.rs.rsp.enabled
                      = {"eventMessagesEnable", "sensorScanningEnable"}
                /\ last.rs.rsp.assertionEnabledLSB = {}
                /\ last.rs.rsp.assertionEnabledMSB = {}
                /\ last.rs.rsp.deassertionEnabledLSB = {}
                /\ last.rs.rsp.deassertionEnabledMSB = {}
        /\ (/\ last.op = "getEventStatus"
             /\ last.cc = "ok"
             /\ NoThresholdInterfaces(last.rs.sensorMap)) =>
                /\ ~last.rs.rsp.extended
                /\ last.rs.rsp.enabled
                      = {"eventMessagesEnable", "sensorScanningEnable"}
                /\ last.rs.rsp.assertionsLSB = {}
                /\ last.rs.rsp.assertionsMSB = {}
                /\ last.rs.rsp.deassertionsLSB = {}
                /\ last.rs.rsp.deassertionsMSB = {}

-----------------------------------------------------------------------------
(* SDR repository info, and the topology watcher seen from the requests *)

\* ipmiStorageGetSDRRepositoryInfo: the completion code, the fields of the
\* response that depend on the state, and the sensor tree it leaves
ipmiStorageGetSDRRepositoryInfo(dataLen, subtreeOK) ==
    LET
        NoRepositoryInfo == [recordCount |-> 0, mostRecentAddition |-> noTimestamp,
                             mostRecentErase |-> noTimestamp]
        tree == TreeAfterLookup(subtreeOK)
    IN  IF dataLen # 0
        THEN [cc |-> "reqDataLenInvalid", rsp |-> NoRepositoryInfo,
              sensorTree |-> sensorTree]
        ELSE IF TreeLookupFailed(subtreeOK)
        THEN [cc |-> "responseError", rsp |-> NoRepositoryInfo,
              sensorTree |-> tree]
        ELSE [cc |-> "ok",
              rsp |-> [recordCount |-> Cardinality(tree) % (uint16Max + 1),
                       mostRecentAddition |-> sdrLastAdd,
                       mostRecentErase |-> sdrLastRemove],
              sensorTree |-> tree]

\* the get-SDR-repository-info handler as a step
GetSDRRepositoryInfo(dataLen, subtreeOK) ==
    \E r \in {ipmiStorageGetSDRRepositoryInfo(dataLen, subtreeOK)} :
        /\ sensorTree' = r.sensorTree
        /\ last' = [op |-> "getRepositoryInfo",
                    rq |-> [dataLen |-> dataLen, subtreeOK |-> subtreeOK],
                    cc |-> r.cc,
                    rs |-> r.rsp]
        /\ UNCHANGED <<sdrReservationID, sdrLastAdd, sdrLastRemove, SensorCache,
                       updateTimeMap, thresholdDeassertMap, now, objects,
                       fruCount, signals, reserveCount, lastReserve,
                       firstChunk, signalSinceReserve, fillTime, everAsserted>>

InitTopology ==
    /\ InitProgram(0)
    /\ objects = [p \in Paths |-> ShapeOf(p)]
    /\ fruCount = 1

NextTopology ==
    \/ \E path \in Paths : BackendAdd(path)
    \/ \E path \in Paths : BackendRemove(path)
    \/ sensorAdded
    \/ sensorRemoved
    \/ \E recordID \in {0, Cardinality(Paths)}, subtreeOK \in BOOLEAN :
          GetSDR(0, recordID, 0, 16, [AllOK EXCEPT !.subtreeOK = subtreeOK])
    \/ \E dataLen \in 0..1, subtreeOK \in BOOLEAN :
          GetSDRRepositoryInfo(dataLen, subtreeOK)

SpecTopology == InitTopology /\ [][NextTopology]_vars

\* C34: the record count a repository-info request reports is the number of
\* record IDs that getRecord accepts in the state the request leaves (while
\* the index it left is in place), the sensors and the FRU devices together.
C34_RecordCountIsRecordSpace ==
    (last.op = "getRepositoryInfo" /\ last.cc = "ok" /\ sensorTree # {}) =>
        last.rs.recordCount
          = Cardinality({recordID \in ReqRecordIDs \ {lastRecordIndex} :
                ipmiStorageGetSDR(0, recordID, 0, 16, AllOK).rsp.cc
                  # "invalidFieldRequest"})

\* C28: every topology add or remove notification leaves the Topology Index
\* empty, and the first getRecord or repository-info request after it
\* enumerates the backend before answering (response error when that fails),
\* so that it numbers the records by the topology of the time of the request.
C28_NotificationForcesReenumeration ==
    /\ [][Len(signals') < Len(signals) => sensorTree' = {}]_vars
    /\ [](sensorTree = {} =>
          LET
              \* whichever getRecord or repository-info request comes first enumerates the
              \* backend as it is now: it fails with response error when the enumeration
              \* fails, and otherwise leaves the index equal to the backend's sensors and
              \* numbers the records by it
              FirstRequestReenumerates ==
                  /\ \A recordID \in ReqRecordIDs, env \in Envs :
                        \E r \in {ipmiStorageGetSDR(0, recordID, 0, 16, env)} :
                            IF ~env.subtreeOK
                            THEN r.rsp.cc = "responseError" /\ r.rsp.payload = NoPayload
                            ELSE /\ r.sensorTree = DOMAIN objects
                                 /\ (r.rsp.cc = "ok" /\ r.rsp.payload.kind = "full") =>
                                       /\ recordID # lastRecordIndex =>
                                             r.rsp.payload.source
                                               = <<"sensor", NthPath(DOMAIN objects, recordID, 1)>>
                                       /\ r.rsp.payload.source[2] \in DOMAIN objects
                  /\ \A subtreeOK \in BOOLEAN :
                        \E r \in {ipmiStorageGetSDRRepositoryInfo(0, subtreeOK)} :
                            IF ~subtreeOK
                            THEN r.cc = "responseError"
                            ELSE /\ r.cc = "ok"
                                 /\ r.sensorTree = DOMAIN objects
                                 /\ r.rsp.recordCount = Cardinality(DOMAIN objects)
          IN  FirstRequestReenumerates)

\* a repository-info request answered from the two sensors left after a
\* removal was notified
C28_Witness ==
    /\ last.op = "getRepositoryInfo"
    /\ last.cc = "ok"
    /\ sdrLastRemove # noTimestamp
    /\ sdrLastAdd = noTimestamp
    /\ signals = <<>>
    /\ Cardinality(DOMAIN objects) = 2
    /\ sensorTree = DOMAIN objects
    /\ last.rs.recordCount = 2

-----------------------------------------------------------------------------
(* SDR record assembler: the exponents byte of a full record *)

\* record.body.r_b_exponents after the four statements that write it: the
\* byte is assigned from bExp, or-ed with its sign, then assigned again from
\* rExp and or-ed with its sign
ExponentsByte(rExp, bExp) ==
    LET
        \* x & 0x7 on the two's complement of a signed exponent
        LowThreeBits(x) == x % 8
        fromB == LowThreeBits(bExp)
        signedB == IF bExp < 0 THEN fromB + 8 ELSE fromB
        fromR == LowThreeBits(rExp) * 16
        signedR == IF rExp < 0 THEN fromR + 128 ELSE fromR
    IN  [afterB |-> signedB, r_b_exponents |-> signedR]

\* the exponents of one sensor packed into the byte of its record
PackExponents(rExp, bExp) ==
    /\ last' = [op |-> "packExponents",
                rq |-> [rExp |-> rExp, bExp |-> bExp],
                cc |-> "ok",
                rs |-> ExponentsByte(rExp, bExp)]
    /\ UNCHANGED <<sdrReservationID, sdrLastAdd, sdrLastRemove, sensorTree,
                   SensorCache, updateTimeMap, thresholdDeassertMap, now,
                   objects, fruCount, signals, reserveCount, lastReserve,
                   firstChunk, signalSinceReserve, fillTime, everAsserted>>

\* the 4-bit signed exponents getSensorAttributes can hand over
NextExponents == \E rExp \in -8..7, bExp \in -8..7 : PackExponents(rExp, bExp)

SpecExponents == InitNoFru /\ [][NextExponents]_vars

\* C30: the exponents byte of a full record carries the R exponent in its
\* upper nibble and the B exponent in its lower nibble, each as a 4-bit
\* signed number, so that both can be read back from the byte.
C30_BothExponentsInByte ==
    LET
        \* a nibble read as a 4-bit two's complement number
        SignedNibble(nibble) == IF nibble >= 8 THEN nibble - 16 ELSE nibble
    IN  last.op = "packExponents" =>
            /\ SignedNibble(last.rs.r_b_exponents \div 16) = last.rq.rExp
            /\ SignedNibble(last.rs.r_b_exponents % 16) = last.rq.bExp

-----------------------------------------------------------------------------
(* Platform Event Submitter *)

directionMask == 128
evmRevMarker == 4
defaultGeneratorID == 44

\* mutant: eight fields are unpacked whatever the first byte is
UnpackedFields_AlwaysEight(p) == 8

\* the number of fields the handler unpacks: 7 after the EvMRev marker, 8
\* with a leading generator ID
UnpackedFields(p) ==
    IF Len(p) > 0 /\ p[1] = evmRevMarker THEN 7 ELSE 8

\* getPathFromSensorNumber(sensorNum) (sdrutils.hpp): the path of the
\* sensorNum-th entry of the lazily rebuilt tree, empty when there is none
getPathFromSensorNumber(sensorNum, subtreeOK) ==
    LET tree == TreeAfterLookup(subtreeOK)
    IN  [path |-> IF sensorNum < Cardinality(tree)
                  THEN NthPath(tree, sensorNum, 1) ELSE "",
         sensorTree |-> tree]

\* ipmiSenPlatformEvent(p): the completion code, the IpmiSelAdd calls made
\* and the sensor tree it leaves.  env: the outcomes of the backend calls;
\* a failed ipmi::getService leaves the handler by an exception, which the
\* dispatcher answers with unspecified error.
ipmiSenPlatformEvent(p, env) ==
    LET
        \* an optional field: the byte when unpack reached it; nullopt, read as 0xFF,
        \* when the payload ends after the fields that must be there; its initial
        \* value 0 when unpack stopped before it
        OptionalAt(i, mandatory) ==
            IF i <= Len(p) THEN p[i]
            ELSE IF Len(p) >= mandatory THEN 255
            ELSE 0
        \* the i-th byte of the payload, or the initial value 0 of a field that
        \* unpack did not reach
        ByteAt(i) == IF i <= Len(p) THEN p[i] ELSE 0
        fields == UnpackedFields(p)
        \* p.fullyUnpacked(): no byte is left after the fields unpacked
        fullyUnpacked == Len(p) <= fields
        shift == fields - 7
        generatorID == IF fields = 7 THEN defaultGeneratorID ELSE ByteAt(1)
        sensorNum == ByteAt(3 + shift)
        eventType == ByteAt(4 + shift)
        eventData == <<ByteAt(5 + shift),
                       OptionalAt(6 + shift, 5 + shift),
                       OptionalAt(7 + shift, 5 + shift)>>
        lookup == getPathFromSensorNumber(sensorNum, env.subtreeOK)
        writeSEL == [sensorPath |-> lookup.path, eventData |-> eventData,
                     assert |-> (eventType \div directionMask) % 2 = 0,
                     generatorID |-> generatorID]
    IN  IF ~fullyUnpacked
        THEN [cc |-> "reqDataLenInvalid", submitted |-> <<>>, thrown |-> FALSE,
              sensorTree |-> sensorTree]
        ELSE IF ~env.serviceOK
        THEN [cc |-> "unspecifiedError", submitted |-> <<>>, thrown |-> TRUE,
              sensorTree |-> lookup.sensorTree]
        ELSE IF ~env.selOK
        THEN [cc |-> "unspecifiedError", submitted |-> <<writeSEL>>,
              thrown |-> FALSE, sensorTree |-> lookup.sensorTree]
        ELSE [cc |-> "ok", submitted |-> <<writeSEL>>, thrown |-> FALSE,
              sensorTree |-> lookup.sensorTree]

\* the platform-event handler as a step
PlatformEvent(p, env) ==
    \E r \in {ipmiSenPlatformEvent(p, env)} :
        /\ sensorTree' = r.sensorTree
        /\ last' = [op |-> "platformEvent",
                    rq |-> [p |-> p, env |-> env],
                    cc |-> r.cc,
                    rs |-> [submitted |-> r.submitted, thrown |-> r.thrown]]
        /\ UNCHANGED <<sdrReservationID, sdrLastAdd, sdrLastRemove, SensorCache,
                       updateTimeMap, thresholdDeassertMap, now, objects,
                       fruCount, signals, reserveCount, lastReserve,
                       firstChunk, signalSinceReserve, fillTime, everAsserted>>

\* every prefix of a deassertion event of sensor 1 after the EvMRev marker and
\* of an assertion event of sensor 0 with a generator ID, each followed by
\* spare bytes; at most one backend call fails
NextEvent ==
    \E e \in {<<4, 2, 1, 129, 10, 11, 12, 13, 14>>,
              <<32, 4, 2, 0, 1, 10, 11, 12, 13>>},
       n \in 0..9, failing \in {"none", "subtree", "service", "sel"} :
        PlatformEvent(SubSeq(e, 1, n), [subtreeOK |-> failing # "subtree",
                                        serviceOK |-> failing # "service",
                                        selOK |-> failing # "sel"])

SpecEvent == InitNoFru /\ [][NextEvent]_vars

\* C25 as stated: no submission and length-invalid when the payload is not
\* consumed, exactly one submission otherwise, and unspecified error when
\* that submission fails.
C25_OneSubmissionUnlessLengthInvalid ==
    LET
        \* decoding leaves no byte of the payload: at most 7 bytes after the EvMRev
        \* marker, at most 8 otherwise
        Consumed(p) == Len(p) <= (IF Len(p) > 0 /\ p[1] = 4 THEN 7 ELSE 8)
    IN  last.op = "platformEvent" =>
            /\ ~Consumed(last.rq.p) =>
                  last.cc = "reqDataLenInvalid" /\ last.rs.submitted = <<>>
            /\ Consumed(last.rq.p) => Len(last.rs.submitted) = 1
            /\ (Consumed(last.rq.p) /\ ~last.rq.env.selOK) =>
                  last.cc = "unspecifiedError"

\* C25 as amended: at most one submission; none when the payload is not
\* consumed (length-invalid) or when the event-log service cannot be
\* located; exactly one otherwise, answered with unspecified error when it
\* fails and with success when it does not.
C25_AtMostOneSubmission ==
    LET
        \* decoding leaves no byte of the payload: at most 7 bytes after the EvMRev
        \* marker, at most 8 otherwise
        Consumed(p) == Len(p) <= (IF Len(p) > 0 /\ p[1] = 4 THEN 7 ELSE 8)
    IN  last.op = "platformEvent" =>
            /\ Len(last.rs.submitted) <= 1
            /\ ~Consumed(last.rq.p) =>
                  last.cc = "reqDataLenInvalid" /\ last.rs.submitted = <<>>
            /\ (Consumed(last.rq.p) /\ ~last.rq.env.serviceOK) =>
                  last.rs.submitted = <<>> /\ last.cc # "ok"
            /\ (Consumed(last.rq.p) /\ last.rq.env.serviceOK) =>
                  /\ Len(last.rs.submitted) = 1
                  /\ last.cc = IF last.rq.env.selOK THEN "ok" ELSE "unspecifiedError"

\* a full event after the EvMRev marker whose submission failed
C25_Witness ==
    /\ last.op = "platformEvent"
    /\ Len(last.rq.p) = 7
    /\ last.rq.p[1] = 4
    /\ ~last.rq.env.selOK
    /\ Len(last.rs.submitted) = 1
    /\ last.cc = "unspecifiedError"

-----------------------------------------------------------------------------
(* Record-id header bytes: records read from a repository with more than 256
   records *)

ManyFru == 254

InitHeader ==
    /\ InitProgram(0)
    /\ objects = [p \in Paths |-> ShapeOf(p)]
    /\ fruCount \in {0, ManyFru}

\* the first records, the records around the 8-bit boundary, and the last
\* record by its sentinel
NextHeader ==
    \E recordID \in {0, 1, Cardinality(Paths), uint8Mod - 1, uint8Mod,
                     Cardinality(Paths) + ManyFru - 1, lastRecordIndex},
       bytesToRead \in ReqLengths, env \in Envs :
        GetSDR(0, recordID, 0, bytesToRead, env)

SpecHeader == InitHeader /\ [][NextHeader]_vars

\* C31: every record returned for a record ID in 0..0xFFFE carries that ID in
\* its two record-id header bytes: the LSB byte is the ID modulo 256 and the
\* MSB byte is the ID divided by 256.
C31_HeaderEncodesRecordID ==
    (last.op = "getSDR" /\ last.cc = "ok" /\ last.rq.recordID # lastRecordIndex) =>
        /\ last.rs.payload.record_id_lsb = last.rq.recordID % uint8Mod
        /\ last.rs.payload.record_id_msb = last.rq.recordID \div uint8Mod

-----------------------------------------------------------------------------
(* Thresholds written and read back: set-sensor-thresholds followed, once
   the cache is refreshed, by get-sensor-thresholds, on the sensor whose raw
   domain is signed (sensor 0, range [-128, 127]) *)

\* both critical thresholds set to one raw byte: the ends of the byte and
\* both sides of 0x80
NextSetGet ==
    \/ \E raw \in {0, 127, 128, 255} :
          SetThresholds(8, [sensorNum |-> 0,
                            mask |-> {"setLowerCritical", "setUpperCritical"},
                            lowerNonCritical |-> raw, lowerCritical |-> raw,
                            upperNonCritical |-> raw, upperCritical |-> raw],
                        BackendOK)
    \/ GetThresholds(0, [subtreeOK |-> TRUE, enumOK |-> TRUE])
    \/ Tick

SpecSetGet == InitNoFru /\ [][NextSetGet]_vars

\* C32: a successful set-thresholds request writes, for each selected
\* threshold, the decode of its raw byte in the raw domain derived for the
\* sensor (a byte >= 0x80 stands for byte - 256 when the domain is signed);
\* and a get-thresholds request that follows it for the same sensor and sees
\* the refreshed cache returns, for each threshold that was set, the raw byte
\* that was supplied.
C32_SetThenGetSameByte ==
    [][LET
        \* the parameters derived for the sensor whose tree a handler fetched
        ParametersOf(sensorMap) ==
            getSensorAttributes(getSensorMaxMin(sensorMap[valueInterface]).max,
                                getSensorMaxMin(sensorMap[valueInterface]).min)
        \* a request byte read in the raw domain of the parameters
        InDomain(byte, a) ==
            IF a.bSigned /\ byte >= 128 THEN byte - uint8Mod ELSE byte
        \* the request byte behind a backend threshold property
        ByteFor(req, property) ==
            IF property = "CriticalLow" THEN req.lowerCritical
            ELSE IF property = "CriticalHigh" THEN req.upperCritical
            ELSE IF property = "WarningLow" THEN req.lowerNonCritical
            ELSE req.upperNonCritical
        \* the response byte get-thresholds gives for a threshold property
        ByteIn(rsp, property) ==
            IF property = "CriticalLow" THEN rsp.lowerCritical
            ELSE IF property = "CriticalHigh" THEN rsp.upperCritical
            ELSE IF property = "WarningLow" THEN rsp.lowerNC
            ELSE rsp.upperNC
        Written(l) == l.op = "setThresholds" /\ l.cc = "ok" /\ l.rs.issued # <<>>
      IN  /\ Written(last') =>
                \A i \in DOMAIN last'.rs.issued :
                    \E a \in {ParametersOf(last'.rs.sensorMap)} :
                        last'.rs.issued[i].value
                          = (a.mValue * InDomain(ByteFor(last'.rq.req,
                                                         last'.rs.issued[i].property), a)
                             + a.bValue * Pow10(a.bExp)) * Pow10(a.rExp)
          /\ (/\ Written(last)
              /\ last'.op = "getThresholds"
              /\ last'.cc = "ok"
              /\ last'.rq.path = last.rq.resolved
              /\ last'.rs.sensorMap = objects[last.rq.resolved]) =>
                \A i \in DOMAIN last.rs.issued :
                    ByteIn(last'.rs.rsp, last.rs.issued[i].property)
                      = ByteFor(last.rq.req, last.rs.issued[i].property)]_vars

-----------------------------------------------------------------------------
(* Sensor ranges: a sensor that exposes MinValue and MaxValue, only one of
   them, or neither, read through every handler that derives parameters *)

InitRange ==
    /\ InitProgram(0)
    /\ \E limits \in SUBSET {"MinValue", "MaxValue"} :
          objects =
              ("p1" :> ((valueInterface :>
                            [property \in {"Value"} \cup limits |->
                                IF property = "Value" THEN 10
                                ELSE IF property = "MinValue" THEN 0 ELSE 100])
                        @@ (criticalInterface :>
                                [CriticalLow |-> 5, CriticalHigh |-> 90])))
              @@ ("p2" :> PlainSensor) @@ ("p3" :> PartialSensor)
    /\ fruCount = 0

NextRange ==
    \/ \E recordID \in 0..Cardinality(Paths), bytesToRead \in ReqLengths,
          env \in Envs :
          GetSDR(0, recordID, 0, bytesToRead, env)
    \/ \E sensnum \in 0..Cardinality(Paths), env \in LookupEnvs :
          GetReading(sensnum, env)
    \/ \E sensnum \in 0..Cardinality(Paths), env \in LookupEnvs :
          GetThresholds(sensnum, env)

SpecRange == InitRange /\ [][NextRange]_vars

\* C33: the range from which an answered full record derives the parameters
\* it advertises is the range from which the reading and threshold handlers
\* derive theirs for the same sensor, defaults included, and so are the
\* parameters.
C33_RecordRangeIsHandlerRange ==
    (/\ last.op = "getSDR"
     /\ last.cc = "ok"
     /\ last.rs.payload.kind = "full") =>
        \E values \in {objects[last.rs.payload.source[2]][valueInterface]} :
            /\ SdrMaxMin(values) = getSensorMaxMin(values)
            /\ last.rs.payload.attributes
                 = getSensorAttributes(getSensorMaxMin(values).max,
                                       getSensorMaxMin(values).min)

-----------------------------------------------------------------------------
(* Event enable against event status: the sensor that exposes all four
   thresholds, under every alarm state and every state of its latches *)

InitEnabled ==
    /\ InitProgram(0)
    /\ \E wl \in BOOLEAN, wh \in BOOLEAN, cl \in BOOLEAN, ch \in BOOLEAN :
          objects = ("p1" :> WithAlarms(wl, wh, cl, ch)) @@ ("p2" :> PlainSensor)
                    @@ ("p3" :> PartialSensor)
    /\ fruCount = 0

NextEnabled ==
    \/ \E n \in AlarmNames, b \in BOOLEAN : thresholdChanged("p1", (n :> Bool(b)))
    \/ GetEventStatus(1, 0, [subtreeOK |-> TRUE, enumOK |-> TRUE])
    \/ GetEventEnable(1, 0, [subtreeOK |-> TRUE, enumOK |-> TRUE])

SpecEnabled == InitEnabled /\ [][NextEnabled]_vars

\* C36: for the sensor that exposes all four thresholds, every deassertion
\* bit an event-status response sets is, in the same byte, a deassertion bit
\* the event-enable response for that sensor sets, and every assertion bit it
\* sets is an assertion bit the event-enable response sets.
C36_StatusBitsAreEnabledBits ==
    LET
        \* the enumerator behind a bit: the literal 1 that event status or-s
        \* into assertionsLSB is the lower non-critical going-low bit
        EnumeratorOf(bit) == IF bit = "0x01" THEN "lowerNonCriticalGoingLow" ELSE bit
        Enumerators(byte) == {EnumeratorOf(bit) : bit \in byte}
    IN  (last.op = "getEventStatus" /\ last.cc = "ok") =>
            \E enable \in {ipmiSenGetSensorEventEnable(
                               1, last.rq.sensnum,
                               [subtreeOK |-> TRUE, enumOK |-> TRUE])} :
                /\ enable.cc = "ok"
                /\ Enumerators(last.rs.rsp.deassertionsLSB)
                      \subseteq enable.rsp.deassertionEnabledLSB
                /\ Enumerators(last.rs.rsp.deassertionsMSB)
                      \subseteq enable.rsp.deassertionEnabledMSB
                /\ Enumerators(last.rs.rsp.assertionsLSB)
                      \subseteq enable.rsp.assertionEnabledLSB
                /\ Enumerators(last.rs.rsp.assertionsMSB)
                      \subseteq enable.rsp.assertionEnabledMSB

-----------------------------------------------------------------------------
(* The whole program: every handler, callback and backend step *)

Next ==
    \/ NextReserve
    \/ NextPaging
    \/ NextRecords
    \/ NextCache
    \/ NextLatch
    \/ NextThreshold
    \/ NextStatus
    \/ NextReading
    \/ NextWalk
    \/ NextScenario
    \/ NextWindow
    \/ NextCodec
    \/ NextUnservable
    \/ NextEvent
    \/ NextMinimal
    \/ NextTopology
    \/ NextExponents
    \/ NextHeader
    \/ NextSetGet
    \/ NextRange
    \/ NextEnabled

Spec == Init /\ [][Next]_vars

=============================================================================
